---- MODULE Spec2Model ----
(***************************************************************************)
(* A model of the symbol-resolution engine of nasl-analyzer: the position  *)
(* algebra (types.rs), the resolver find_definitions (interpret.rs), the   *)
(* include loader new_with_includes (interpret.rs), the cache and the      *)
(* threads of its load_plugins (cache.rs),                                 *)
(* the go-to-definition handler (handler.rs), the extractor (node_ext.rs,  *)
(* lookup.rs), the main loop (main.rs) and the built-in resolver           *)
(* (openvas_funcs.rs).                                                     *)
(***************************************************************************)
EXTENDS Integers, Sequences, FiniteSets, TLC

VARIABLES
    \* resolution of one SearchParameter in one Definitions (interpret.rs)
    rdefs,      \* the NASLDefinitions resolved in
    rsp,        \* the SearchParameter
    rfound,     \* the identifiers find_definitions yielded, in order
    rpc,        \* "start" before find_definitions ran, "done" after
    \* the files on disk, read by the include loader and by the handler
    fs,         \* path -> [status, code]
    \* one call of the include loader (interpret.rs)
    lpath,      \* the primary file's path
    lpaths,     \* the search roots
    lcode,      \* the code argument: None, or Some(text the caller read)
    lresult,    \* what new_with_includes produced
    lpc,        \* "start" before the call, "done" after
    \* the language server: its cache (cache.rs) and its connection
    cpaths,     \* Cache.paths: the search roots
    cinternal,  \* Cache.internal: None, or Some(the built-ins table)
    cplugins,   \* Cache.plugins: the paths of the files loaded
    alive,      \* FALSE once the process died
    response,   \* the last Response sent, None before the first
    hlast,      \* the last request handled and what its handling computed
    \* the extractor applied to one syntax tree (node_ext.rs, interpret.rs,
    \* lookup.rs)
    xtree,      \* the root node of the tree-sitter tree
    xname,      \* the name find_calls is asked for
    xpoint,     \* <<line, column>> search_parameter is asked for
    xdefs,      \* NASLDefinitions::new of the tree
    xlookup,    \* Lookup::new of the tree
    xcalls,     \* Lookup::find_calls(xname), collected
    xsp,        \* NASLDefinitions::search_parameter at xpoint
    xpc,        \* "start" before the extractor ran, "done" after
    \* the position algebra applied to three points (types.rs)
    pa,         \* a point: the start of an identifier
    pb,         \* a point: the end of the identifier
    pat,         \* a point asked about
    pposa,      \* to_pos of pa
    pposb,      \* to_pos of pb
    pin,        \* Identifier{pa, pb}.in_pos(to_pos of pp)
    ppc,        \* "start" before to_pos ran, "done" after
    \* the connection of the main loop (main.rs)
    inbox,      \* connection.receiver: the messages not yet taken, in order
    received,   \* every message the transport delivered, in order
    sent,       \* connection.sender: the responses sent, in order
    \* the built-in resolver applied to one C file (openvas_funcs.rs)
    btree,      \* the parse of the C file
    bname,      \* the name find_origin_location is asked for
    bresult,    \* OpenVASInBuildFunctions::new of the file
    bfound,     \* find_origin_location of bname, collected
    bpc,        \* "start" before new ran, "done" after
    \* one call of Cache::load_plugins (cache.rs)
    wentries,   \* the entries WalkDir yields, in order
    wnext,      \* the number of the entry the walk yields next, from 1
    wchildren,  \* per worker: its channel, where it stands, the path it holds
    wrx,        \* the result channel: the paths parsed and not yet collected
    wplugins,   \* the keys of the map being filled
    wunsent,    \* the paths whose send to a worker failed
    wpc         \* where the calling thread stands

rvars == <<rdefs, rsp, rfound, rpc>>

lvars == <<lpath, lpaths, lcode, lresult, lpc>>

hvars == <<cpaths, cinternal, cplugins, alive, response, hlast>>

xvars == <<xtree, xname, xpoint, xdefs, xlookup, xcalls, xsp, xpc>>

\* the variables of the specifications added after the resolver, the loader
\* and the server
pvars == <<pa, pb, pat, pposa, pposb, pin, ppc>>

mvars == <<inbox, received, sent>>

bvars == <<btree, bname, bresult, bfound, bpc>>

wvars == <<wentries, wnext, wchildren, wrx, wplugins, wunsent, wpc>>

ovars == <<xvars, pvars, mvars, bvars, wvars>>

vars == <<rdefs, rsp, rfound, rpc, fs, lpath, lpaths, lcode, lresult, lpc,
          cpaths, cinternal, cplugins, alive, response, hlast, ovars>>

----------------------------------------------------------------------------
(* Sequences helpers                                                       *)

Range(s) == {s[k] : k \in 1..Len(s)}

RECURSIVE Flatten(_)
Flatten(ss) == IF ss = <<>> THEN <<>> ELSE Head(ss) \o Flatten(Tail(ss))

----------------------------------------------------------------------------
(* f32: a non-negative finite IEEE-754 single is the pair <<e, m>> for     *)
(* m * 2^e with 2^23 <= m < 2^24, or F32Zero.  Pairs compare as the floats *)
(* do: by exponent, then by mantissa.                                      *)

RECURSIVE Pow2(_)
Pow2(n) == IF n <= 0 THEN 1 ELSE 2 * Pow2(n - 1)

RECURSIVE Log2(_)
Log2(n) == IF n <= 1 THEN 0 ELSE 1 + Log2(n \div 2)

MantLo == Pow2(23)
MantHi == Pow2(24)

F32Zero == <<-1000, 0>>

\* q + rem/den rounded to the nearest integer, ties to even
RoundEven(q, rem, den) ==
    IF 2 * rem > den \/ (2 * rem = den /\ q % 2 = 1) THEN q + 1 ELSE q

\* a mantissa that rounding carried up to 2^24 moves to the next exponent
Normal(e, m) == IF m = MantHi THEN <<e + 1, MantLo>> ELSE <<e, m>>

\* `n as f32` for a usize n
IntToF32(n) ==
    IF n = 0 THEN F32Zero
    ELSE LET k == Log2(n) IN
         IF k <= 23 THEN <<k - 23, n * Pow2(23 - k)>>
         ELSE LET d == Pow2(k - 23) IN
              Normal(k - 23, RoundEven(n \div d, n % d, d))

\* x / 100.0
F32Div100(x) ==
    IF x = F32Zero THEN F32Zero
    ELSE LET s == IF x[2] * 64 >= 100 * MantLo THEN 6 ELSE 7
             n == x[2] * Pow2(s)
         IN  Normal(x[1] - s, RoundEven(n \div 100, n % 100, 100))

\* a + b, for a[1] >= b[1]
F32AddOrdered(a, b) ==
    LET d == a[1] - b[1] IN
    IF d >= 25 THEN a
    ELSE LET den == Pow2(d)
             t   == a[2] + (b[2] \div den)
             rem == b[2] % den
         IN  IF t < MantHi THEN Normal(a[1], RoundEven(t, rem, den))
             ELSE LET q   == t \div 2
                      bit == t % 2
                      up  == bit = 1 /\ (rem > 0 \/ q % 2 = 1)
                  IN  Normal(a[1] + 1, IF up THEN q + 1 ELSE q)

F32Add(a, b) ==
    IF a = F32Zero THEN b
    ELSE IF b = F32Zero THEN a
    ELSE IF a[1] >= b[1] THEN F32AddOrdered(a, b) ELSE F32AddOrdered(b, a)

F32Le(a, b) == a[1] < b[1] \/ (a[1] = b[1] /\ a[2] <= b[2])

F32Lt(a, b) == a[1] < b[1] \/ (a[1] = b[1] /\ a[2] < b[2])

----------------------------------------------------------------------------
(* types.rs                                                                *)

Point(r, c) == [row |-> r, column |-> c]

\* Option<String>: <<>> is None, <<s>> is Some(s)
None == <<>>
Some(x) == <<x>>

Ident(s, e, n) == [start |-> s, end |-> e, identifier |-> n]

\* r as f32 + c as f32 / 100.0
F32Pos(r, c) == F32Add(IntToF32(r), F32Div100(IntToF32(c)))

\* F32Pos of the small rows and columns, computed once
PosTable == [r \in 0..15 |-> [c \in 0..49 |-> F32Pos(r, c)]]

to_pos(r, c) ==
    IF r \in DOMAIN PosTable /\ c \in DOMAIN PosTable[r]
    THEN PosTable[r][c]
    ELSE F32Pos(r, c)

as_pos(id) ==
    <<to_pos(id.start.row, id.start.column), to_pos(id.end.row, id.end.column)>>

in_pos(id, pos) == F32Le(as_pos(id)[1], pos) /\ F32Le(pos, as_pos(id)[2])

\* Identifier::matches accepting every identifier
matches_any(id, name) == TRUE

\* Identifier::matches
matches(id, name) == Some(name) = id.identifier

----------------------------------------------------------------------------
(* interpret.rs: Jumpable, NASLDefinitions, SearchParameter                *)

FunDef(id, params) == [tag |-> "FunDef", id |-> id, params |-> params]
IfDef(id, params)  == [tag |-> "IfDef", id |-> id, params |-> params]
Assign(id)         == [tag |-> "Assign", id |-> id]
Block(id, js)      == [tag |-> "Block", id |-> id, js |-> js]
CallExpression(id, params) ==
    [tag |-> "CallExpression", id |-> id, params |-> params]

is_definition(j) == j.tag # "CallExpression"

NASLDefinitions(definitions, origin, includes) ==
    [definitions |-> definitions, origin |-> origin, includes |-> includes]

SearchParameter(origin, name, pos) ==
    [origin |-> origin, name |-> name, pos |-> pos]

\* the identifiers of s that match name, in order
RECURSIVE MatchingArgs(_, _)
MatchingArgs(args, name) ==
    IF args = <<>> THEN <<>>
    ELSE (IF matches(Head(args), name) THEN <<Head(args)>> ELSE <<>>)
         \o MatchingArgs(Tail(args), name)

\* verify_args with the scope test dropped: parameters leak everywhere
verify_args_noscope(id, origin, args, defco) ==
    (IF matches(id, defco.name) THEN <<id>> ELSE <<>>)
    \o MatchingArgs(args, defco.name)

\* verify_args that never looks at the parameters
verify_args_noparams(id, origin, args, defco) ==
    IF matches(id, defco.name) THEN <<id>> ELSE <<>>

\* verify_args yielding the entry's own identifier only inside its scope
verify_args_localid(id, origin, args, defco) ==
    IF origin = defco.origin /\ in_pos(id, defco.pos)
    THEN (IF matches(id, defco.name) THEN <<id>> ELSE <<>>)
         \o MatchingArgs(args, defco.name)
    ELSE <<>>

\* verify_args pushing the matching parameters before the entry's identifier
verify_args_params_first(id, origin, args, defco) ==
    (IF origin = defco.origin /\ in_pos(id, defco.pos)
     THEN MatchingArgs(args, defco.name)
     ELSE <<>>)
    \o (IF matches(id, defco.name) THEN <<id>> ELSE <<>>)

verify_args(id, origin, args, defco) ==
    (IF matches(id, defco.name) THEN <<id>> ELSE <<>>)
    \o (IF origin = defco.origin /\ in_pos(id, defco.pos)
        THEN MatchingArgs(args, defco.name)
        ELSE <<>>)

\* the Assign arm requiring the cursor to be on the assignment
assign_arm_local(id, sp) ==
    IF matches(id, sp.name) /\ in_pos(id, sp.pos) THEN <<id>> ELSE <<>>

\* the Jumpable::Assign arm of find_definitions
assign_arm(id, sp) == IF matches(id, sp.name) THEN <<id>> ELSE <<>>

\* the Block arm entering every block of the file, whatever the position
block_guard_anypos(id, origin, sp) == origin = sp.origin

\* the Block arm entering the blocks of every file around the position
block_guard_anyorigin(id, origin, sp) == in_pos(id, sp.pos)

\* the guard of the Jumpable::Block arm of find_definitions
block_guard(id, origin, sp) == origin = sp.origin /\ in_pos(id, sp.pos)

RECURSIVE find_definitions(_, _, _)
find_definitions(definitions, origin, sp) ==
    IF definitions = <<>> THEN <<>>
    ELSE LET i == Head(definitions)
             result ==
                 CASE i.tag = "Block" ->
                        IF block_guard(i.id, origin, sp)
                        THEN find_definitions(i.js.definitions, i.js.origin, sp)
                        ELSE <<>>
                   [] i.tag = "IfDef" -> verify_args(i.id, origin, i.params, sp)
                   [] i.tag = "FunDef" -> verify_args(i.id, origin, i.params, sp)
                   [] i.tag = "Assign" -> assign_arm(i.id, sp)
                   [] OTHER -> <<>>
         IN  result \o find_definitions(Tail(definitions), origin, sp)

\* NASLDefinitions::find_definitions before the projection to start points
find_identifiers(d, sp) == find_definitions(d.definitions, d.origin, sp)

Start(ids) == [k \in 1..Len(ids) |-> ids[k].start]

find_points(d, sp) == Start(find_identifiers(d, sp))

----------------------------------------------------------------------------
(* The inputs of the resolver: Definitions of the shapes the extractor     *)
(* builds (node_ext.rs): a function spans FunRegion and has its parameters *)
(* on its first line and the block FunBody; an if statement spans IfRegion *)
(* with its bindings in the condition and the block IfBody; top-level      *)
(* assignments and calls lie outside both.                                 *)

MaxDefs == 2

Names == {"a", "b"}

Origins == {"/r1/a.nasl", "/r1/b.inc"}

Span(r1, c1, r2, c2, n) == Ident(Point(r1, c1), Point(r2, c2), n)

FunRegion(n)  == Span(1, 0, 4, 1, n)
FunParam(n)   == Span(1, 14, 1, 15, Some(n))
FunBody       == Span(1, 17, 4, 1, None)
FunLocal(n)   == Span(2, 4, 2, 5, Some(n))
IfRegion      == Span(6, 0, 8, 1, None)
IfBinding(n)  == Span(6, 5, 6, 6, Some(n))
IfBody        == Span(6, 14, 8, 1, None)
IfLocal(n)    == Span(7, 4, 7, 5, Some(n))
TopAssign(n)  == Span(10, 0, 10, 1, Some(n))
TopCall(n)    == Span(11, 0, 11, 4, Some(n))

\* (line, column) of the queries: inside the function but before its body,
\* inside the body, on the last column of the body, one column after it,
\* in the if condition, inside the if body
QueryPoints == {<<1, 5>>, <<2, 4>>, <<4, 1>>, <<4, 2>>, <<6, 5>>, <<7, 4>>}

NameLists == {<<>>} \cup {<<n>> : n \in Names}

SeqsUpTo(S, n) == UNION {[1..k -> S] : k \in 0..n}

MapSeq(s, Op(_)) == [k \in 1..Len(s) |-> Op(s[k])]

FunLocalAssign(n) == Assign(FunLocal(n))
IfLocalAssign(n)  == Assign(IfLocal(n))

Entries(origin) ==
    {Assign(TopAssign(n)) : n \in Names}
    \cup {FunDef(FunRegion(Some(n)), MapSeq(ps, FunParam)) :
            n \in Names, ps \in NameLists}
    \cup {IfDef(IfRegion, MapSeq(bs, IfBinding)) : bs \in NameLists}
    \cup {Block(FunBody, NASLDefinitions(MapSeq(ls, FunLocalAssign), origin, <<>>)) :
            ls \in NameLists}
    \cup {Block(IfBody, NASLDefinitions(MapSeq(ls, IfLocalAssign), origin, <<>>)) :
            ls \in NameLists}
    \cup {CallExpression(TopCall("a"), <<>>)}

\* the file the Definitions were extracted from; the query's origin is this
\* file or the other one
DefOrigin == "/r1/a.nasl"

DefinitionsSet ==
    {NASLDefinitions(ds, DefOrigin, <<>>) : ds \in SeqsUpTo(Entries(DefOrigin), MaxDefs)}

SearchParameters ==
    {SearchParameter(o, n, to_pos(q[1], q[2])) :
        o \in Origins, n \in Names, q \in QueryPoints}

----------------------------------------------------------------------------
(* SpecResolve: find_definitions applied to every input                    *)

\* the variables of the extractor, unused
XIdle ==
    /\ xtree = None
    /\ xname = ""
    /\ xpoint = <<0, 0>>
    /\ xdefs = None
    /\ xlookup = None
    /\ xcalls = <<>>
    /\ xsp = None
    /\ xpc = "idle"

\* the variables of the position algebra, unused
PIdle ==
    /\ pa = None
    /\ pb = None
    /\ pat = None
    /\ pposa = None
    /\ pposb = None
    /\ pin = FALSE
    /\ ppc = "idle"

\* the variables of the connection, unused
MIdle ==
    /\ inbox = <<>>
    /\ received = <<>>
    /\ sent = <<>>

\* the variables of the built-in resolver, unused
BIdle ==
    /\ btree = None
    /\ bname = ""
    /\ bresult = None
    /\ bfound = <<>>
    /\ bpc = "idle"

\* the variables of the later specifications, unused
\* the variables of load_plugins, unused
WIdle ==
    /\ wentries = <<>>
    /\ wnext = 0
    /\ wchildren = <<>>
    /\ wrx = <<>>
    /\ wplugins = {}
    /\ wunsent = {}
    /\ wpc = "idle"

OIdle == XIdle /\ PIdle /\ MIdle /\ BIdle /\ WIdle

\* the variables of the loader, unused
LIdle ==
    /\ lpath = ""
    /\ lpaths = <<>>
    /\ lcode = None
    /\ lresult = None
    /\ lpc = "idle"

\* the variables of the server, unused
HIdle ==
    /\ cpaths = <<>>
    /\ cinternal = None
    /\ cplugins = {}
    /\ alive = FALSE
    /\ response = None
    /\ hlast = None

NoFiles == [p \in {} |-> None]

RInit ==
    /\ rdefs \in DefinitionsSet
    /\ rsp \in SearchParameters
    /\ rfound = <<>>
    /\ rpc = "start"
    /\ fs = NoFiles
    /\ LIdle
    /\ HIdle
    /\ OIdle

\* NASLDefinitions::find_points / find_definitions, collected
Resolve ==
    /\ rpc = "start"
    /\ rfound' = find_identifiers(rdefs, rsp)
    /\ rpc' = "done"
    /\ UNCHANGED <<rdefs, rsp, fs, lvars, hvars, ovars>>

RNext == Resolve

SpecResolve == RInit /\ [][RNext]_vars

----------------------------------------------------------------------------
(* Claims about the resolver (SpecResolve)                                 *)

RDone == rpc = "done"

RFound == Range(rfound)

\* the top-level entries of the Definitions with the given tags
Top(tags) == {j \in Range(rdefs.definitions) : j.tag \in tags}

RSameOrigin == rdefs.origin = rsp.origin

\* the entry's range contains the query position and the file is the query's
InScope(j) == RSameOrigin /\ in_pos(j.id, rsp.pos)

\* C1: every top-level Assign(id) with id.name = sp.name is yielded by
\* find_definitions, whatever sp.pos is and whether or not the Definitions'
\* origin is sp.origin.
C1_AssignGlobal ==
    RDone => \A j \in Top({"Assign"}) :
                 matches(j.id, rsp.name) => j.id \in RFound

\* an assignment is yielded to a query from another file whose position is
\* outside the assignment
C1_Witness ==
    /\ RDone
    /\ ~RSameOrigin
    /\ \E j \in Top({"Assign"}) :
          matches(j.id, rsp.name) /\ ~in_pos(j.id, rsp.pos) /\ j.id \in RFound

\* C2: a parameter of a FunDef or a binding of an IfDef is yielded only if
\* the entry's origin is sp.origin and the entry's range contains sp.pos.
C2_ScopeLocality ==
    RDone => \A j \in Top({"FunDef", "IfDef"}) :
                 \A p \in Range(j.params) :
                     (matches(p, rsp.name) /\ p \in RFound) => InScope(j)

\* in one file a function's parameter and an if binding carry the queried
\* name; the query is inside the if statement: the binding is yielded, the
\* parameter is not
C2_Witness ==
    /\ RDone
    /\ RSameOrigin
    /\ \E j \in Top({"FunDef"}) : \E p \in Range(j.params) :
          matches(p, rsp.name) /\ ~in_pos(j.id, rsp.pos) /\ p \notin RFound
    /\ \E j \in Top({"IfDef"}) : \E p \in Range(j.params) :
          matches(p, rsp.name) /\ in_pos(j.id, rsp.pos) /\ p \in RFound

\* C3: a Block contributes what its inner Definitions resolve iff the origin
\* is sp.origin and the block's range contains sp.pos: an assignment inside
\* a block is yielded exactly for the queries inside that block, a top-level
\* assignment for every query.
C3_BlockIff ==
    RDone =>
        /\ \A j \in Top({"Block"}) :
              /\ InScope(j) =>
                    \A k \in 1..Len(find_identifiers(j.js, rsp)) :
                        find_identifiers(j.js, rsp)[k] \in RFound
              /\ \A x \in Range(j.js.definitions) :
                    (x.tag = "Assign" /\ matches(x.id, rsp.name)) =>
                        (x.id \in RFound <=> InScope(j))
        /\ \A j \in Top({"Assign"}) :
              matches(j.id, rsp.name) => j.id \in RFound

\* two blocks each assign the queried name; the query is inside one of them:
\* that block's assignment is yielded, the other block's is not
C3_Witness ==
    /\ RDone
    /\ \E j \in Top({"Block"}) : \E x \in Range(j.js.definitions) :
          x.tag = "Assign" /\ matches(x.id, rsp.name) /\ InScope(j) /\ x.id \in RFound
    /\ \E j \in Top({"Block"}) : \E x \in Range(j.js.definitions) :
          x.tag = "Assign" /\ matches(x.id, rsp.name) /\ ~InScope(j) /\ x.id \notin RFound

\* C4: the identifier of a FunDef whose name is sp.name is yielded from every
\* position and from every file.
C4_FunDefGlobal ==
    RDone => \A j \in Top({"FunDef"}) :
                 matches(j.id, rsp.name) => j.id \in RFound

\* a function is yielded to a query of another file, positioned outside it
C4_Witness ==
    /\ RDone
    /\ ~RSameOrigin
    /\ \E j \in Top({"FunDef"}) :
          matches(j.id, rsp.name) /\ ~in_pos(j.id, rsp.pos) /\ j.id \in RFound

\* the query lies inside the body of function j of the queried file and its
\* name is j's parameter p
InBodyOnParam(j, p) ==
    /\ InScope(j)
    /\ in_pos(FunBody, rsp.pos)
    /\ p \in Range(j.params)
    /\ matches(p, rsp.name)

\* C5 as stated: for a query inside a function body on a parameter's name,
\* the parameter is returned and no top-level assignment of that name is.
C5_Original ==
    RDone => \A j \in Top({"FunDef"}) : \A p \in Range(j.params) :
                 InBodyOnParam(j, p) =>
                     /\ p \in RFound
                     /\ \A x \in Top({"Assign"}) :
                           matches(x.id, rsp.name) => x.id \notin RFound

\* C5 amended: for a query inside a function body on a parameter's name, the
\* parameter is returned, and so is every top-level assignment of that name.
C5_ParamAndOuter ==
    RDone => \A j \in Top({"FunDef"}) : \A p \in Range(j.params) :
                 InBodyOnParam(j, p) =>
                     /\ p \in RFound
                     /\ \A x \in Top({"Assign"}) :
                           matches(x.id, rsp.name) => x.id \in RFound

\* a query inside a function body on a parameter's name, in a file that also
\* assigns that name at top level: both are returned
C5_Witness ==
    /\ RDone
    /\ \E j \in Top({"FunDef"}) : \E p \in Range(j.params) :
          InBodyOnParam(j, p) /\ p \in RFound
    /\ \E x \in Top({"Assign"}) : matches(x.id, rsp.name) /\ x.id \in RFound

----------------------------------------------------------------------------
(* Files.  A file's code stands for its text by what parsing it gives:     *)
(* whether tree-sitter returns a tree (interpret.rs tree), the identifier  *)
(* leaves of the tree in depth-first order, the jumpables                  *)
(* NASLDefinitions::new extracts and the include(...) arguments.           *)

Code(parses, idents, definitions, includes) ==
    [parses |-> parses, idents |-> idents,
     definitions |-> definitions, includes |-> includes]

\* status: "absent", "unreadable" (exists, fs::read fails) or "file"
File(status, code) == [status |-> status, code |-> code]

NoCode == Code(FALSE, <<>>, <<>>, <<>>)

Ok(v) == [kind |-> "ok", value |-> v]
Err == [kind |-> "err"]
\* the recursion exhausted the stack: the process is gone
Overflow == [kind |-> "overflow"]

\* Path::new(p).exists()
exists(fsys, p) == p \in DOMAIN fsys /\ fsys[p].status # "absent"

\* NASLDefinitions::read
read(fsys, p) ==
    IF p \in DOMAIN fsys /\ fsys[p].status = "file" THEN Ok(fsys[p].code) ELSE Err

\* NASLDefinitions::new_parse_tree
new_parse_tree(origin, code) ==
    IF code.parses
    THEN Ok(NASLDefinitions(code.definitions, origin, code.includes))
    ELSE Err

\* format!("{p}/{}", i)
format_path(p, i) == p \o "/" \o i

FileScheme == "file://"

\* p.strip_prefix("file://").unwrap_or(&p)
strip_prefix(p) ==
    IF Len(p) >= Len(FileScheme) /\ SubSeq(p, 1, Len(FileScheme)) = FileScheme
    THEN SubSeq(p, Len(FileScheme) + 1, Len(p))
    ELSE p

\* the candidates with the roots in the outer loop
candidates_roots_first(fsys, includes, paths) ==
    SelectSeq(
        Flatten([m \in 1..Len(paths) |->
                    [k \in 1..Len(includes) |->
                        strip_prefix(format_path(paths[m], includes[k]))]]),
        LAMBDA c : exists(fsys, c))

\* the candidate paths of new_with_includes: every include under every root,
\* scheme stripped, that exists
candidates(fsys, includes, paths) ==
    SelectSeq(
        Flatten([k \in 1..Len(includes) |->
                    [m \in 1..Len(paths) |->
                        strip_prefix(format_path(paths[m], includes[k]))]]),
        LAMBDA c : exists(fsys, c))

\* collect failing as soon as one include fails
collect_strict(subs) ==
    IF \E k \in 1..Len(subs) : subs[k].kind = "overflow" THEN Overflow
    ELSE IF \E k \in 1..Len(subs) : subs[k].kind = "err" THEN Err
    ELSE Ok(Flatten([k \in 1..Len(subs) |-> subs[k].value]))

\* the results of the recursive calls, flattened: an Err contributes nothing
collect(subs) ==
    IF \E k \in 1..Len(subs) : subs[k].kind = "overflow" THEN Overflow
    ELSE Ok(Flatten([k \in 1..Len(subs) |->
                        IF subs[k].kind = "ok" THEN subs[k].value ELSE <<>>]))

\* NASLDefinitions::new_with_includes; depth is the number of frames the
\* stack still holds
RECURSIVE new_with_includes(_, _, _, _, _)
new_with_includes(fsys, path, paths, code, depth) ==
    IF depth = 0 THEN Overflow
    ELSE LET text == IF code # None THEN Ok(code[1]) ELSE read(fsys, path)
         IN  IF text.kind = "err" THEN Err
             ELSE LET init == new_parse_tree(path, text.value)
                  IN  IF init.kind = "err" THEN Err
                      ELSE LET cs   == candidates(fsys, init.value.includes, paths)
                               subs == [k \in 1..Len(cs) |->
                                           new_with_includes(fsys, cs[k], paths,
                                                             None, depth - 1)]
                               incs == collect(subs)
                           IN  IF incs.kind = "ok"
                               THEN Ok(<<init.value>> \o incs.value)
                               ELSE incs

----------------------------------------------------------------------------
(* SpecLoader: new_with_includes applied to every file system              *)

MaxRoots == 2

Primary == "/r1/a.nasl"

IncludeFiles == {"/r1/b.inc", "/r1/c.inc", "/r2/b.inc"}

LoaderRoots == {"file:///r1", "/r2"}

IncludeLists == {<<>>, <<"b.inc">>, <<"c.inc">>, <<"c.inc", "b.inc">>}

\* an acyclic include graph never nests deeper than the number of files
MaxDepth == Cardinality(IncludeFiles) + 2

Codes == {NoCode} \cup {Code(TRUE, <<>>, <<>>, is) : is \in IncludeLists}

IncludeFileStates ==
    {File("absent", NoCode), File("unreadable", NoCode)}
    \cup {File("file", c) : c \in Codes}

PrimaryStates == {File(st, c) : st \in {"unreadable", "file"}, c \in Codes}

FileSystems ==
    {[p \in IncludeFiles \cup {Primary} |->
        IF p = Primary THEN pf ELSE inc[p]] :
        pf \in PrimaryStates, inc \in [IncludeFiles -> IncludeFileStates]}

\* the variables of the resolver, unused
RIdle ==
    /\ rdefs = NASLDefinitions(<<>>, "", <<>>)
    /\ rsp = SearchParameter("", "", F32Zero)
    /\ rfound = <<>>
    /\ rpc = "idle"

LInit ==
    /\ fs \in FileSystems
    /\ lpath = Primary
    /\ lpaths \in SeqsUpTo(LoaderRoots, MaxRoots)
    /\ lcode \in {None, Some(fs[Primary].code)}
    /\ lresult = None
    /\ lpc = "start"
    /\ RIdle
    /\ HIdle
    /\ OIdle

Load ==
    /\ lpc = "start"
    /\ lresult' = new_with_includes(fs, lpath, lpaths, lcode, MaxDepth)
    /\ lpc' = "done"
    /\ UNCHANGED <<fs, lpath, lpaths, lcode, rvars, hvars, ovars>>

LNext == Load

SpecLoader == LInit /\ [][LNext]_vars

----------------------------------------------------------------------------
(* Claims about the include loader (SpecLoader)                            *)

LDone == lpc = "done"

\* the code the loader parses for file p: the code argument for the primary
\* file when given, else what is on disk
LCodeOf(p) == IF p = lpath /\ lcode # None THEN lcode[1] ELSE fs[p].code

\* reading and parsing p succeeds
LLoads(p) ==
    /\ (p = lpath /\ lcode # None) \/ (p \in DOMAIN fs /\ fs[p].status = "file")
    /\ LCodeOf(p).parses

\* root + "/" + include, a leading file:// removed
LCandidate(root, include) ==
    LET c == root \o "/" \o include
    IN  IF Len(c) >= 7 /\ SubSeq(c, 1, 7) = "file://" THEN SubSeq(c, 8, Len(c)) ELSE c

\* the existing candidates of one include name, in roots order
RECURSIVE LUnderRoots(_, _)
LUnderRoots(include, roots) ==
    IF roots = <<>> THEN <<>>
    ELSE LET c == LCandidate(Head(roots), include)
         IN  (IF c \in DOMAIN fs /\ fs[c].status # "absent" THEN <<c>> ELSE <<>>)
             \o LUnderRoots(include, Tail(roots))

\* the files a list of include names leads to: source order, then roots order
RECURSIVE LChildren(_)
LChildren(includes) ==
    IF includes = <<>> THEN <<>>
    ELSE LUnderRoots(Head(includes), lpaths) \o LChildren(Tail(includes))

LSucc(p) == IF LLoads(p) THEN Range(LChildren(LCodeOf(p).includes)) ELSE {}

RECURSIVE LReach(_)
LReach(S) ==
    LET T == S \cup UNION {LSucc(p) : p \in S}
    IN  IF T = S THEN S ELSE LReach(T)

\* no file reachable from the primary file includes itself, directly or not
LAcyclic == \A p \in LReach({lpath}) : p \notin LReach(LSucc(p))

\* depth-first pre-order by a work list: the head is emitted and replaced by
\* its children
RECURSIVE LPreOrder(_)
LPreOrder(work) ==
    IF work = <<>> THEN <<>>
    ELSE LET p == Head(work)
         IN  IF LLoads(p)
             THEN <<NASLDefinitions(LCodeOf(p).definitions, p, LCodeOf(p).includes)>>
                  \o LPreOrder(LChildren(LCodeOf(p).includes) \o Tail(work))
             ELSE LPreOrder(Tail(work))

LOrigins == [k \in 1..Len(lresult.value) |-> lresult.value[k].origin]

\* C8 as stated: every load terminates and holds each file at most once.
C8_LoadsOnceAndTerminates ==
    LDone =>
        /\ lresult.kind # "overflow"
        /\ lresult.kind = "ok" =>
              \A k, m \in 1..Len(lresult.value) :
                  LOrigins[k] = LOrigins[m] => k = m

\* C9: for an acyclic include graph the result is the depth-first pre-order
\* list: the root file, then for each include in source order and each root
\* in roots order the existing candidate followed by its own includes.
C9_DepthFirstOrder ==
    (LDone /\ LAcyclic /\ LLoads(lpath)) => lresult = Ok(LPreOrder(<<lpath>>))

\* an acyclic load over two roots whose result nests: an included file that
\* itself includes a file which was loaded
C9_Witness ==
    /\ LDone
    /\ LAcyclic
    /\ Len(lpaths) = 2
    /\ lresult.kind = "ok"
    /\ Len(lresult.value) >= 4
    /\ \E k \in 2..Len(lresult.value) :
          LChildren(lresult.value[k].includes) # <<>>

LPrimaryFails == ~LLoads(lpath)

\* C10: the loader returns an error exactly when reading or parsing the
\* primary file fails; an included file that cannot be read or parsed is
\* skipped and the primary file and the other includes are still returned.
C10_ErrorOnlyForPrimary ==
    LDone =>
        /\ lresult.kind = "err" <=> LPrimaryFails
        /\ lresult.kind = "ok" =>
              /\ lresult.value[1].origin = lpath
              /\ \A k \in 2..Len(lresult.value) : LLoads(LOrigins[k])
              /\ \A c \in LSucc(lpath) : LLoads(c) => c \in Range(LOrigins)

\* one include of the primary file exists but cannot be read or parsed,
\* another one loads: the result holds the primary file and the latter
C10_Witness ==
    /\ LDone
    /\ lresult.kind = "ok"
    /\ \E c \in LSucc(lpath) : ~LLoads(c) /\ c \notin Range(LOrigins)
    /\ \E c \in LSucc(lpath) : LLoads(c) /\ c \in Range(LOrigins)

----------------------------------------------------------------------------
(* interpret.rs search_parameter; openvas_funcs.rs; cache.rs; handler.rs   *)

\* find_identifier: the first identifier leaf, in depth-first order, whose
\* range contains pos (a leaf's range lies inside the range of each of its
\* ancestors)
RECURSIVE find_identifier(_, _)
find_identifier(pos, idents) ==
    IF idents = <<>> THEN None
    ELSE IF in_pos(Head(idents), pos) THEN Some(Head(idents).identifier[1])
    ELSE find_identifier(pos, Tail(idents))

\* NASLDefinitions::search_parameter
search_parameter(origin, code, line, column) ==
    IF ~code.parses THEN None
    ELSE LET name == find_identifier(to_pos(line, column), code.idents)
         IN  IF name = None THEN None
             ELSE Some(SearchParameter(origin, name[1], to_pos(line, column)))

\* OpenVASInBuildFunctions {definitions, origin}
OpenVASInBuildFunctions(definitions, origin) ==
    [definitions |-> definitions, origin |-> origin]

\* OpenVASInBuildFunctions::from_path: the FunDefs new extracts from the C
\* file are the file's definitions
from_path(fsys, path) ==
    LET text == read(fsys, path)
    IN  IF text.kind = "err" \/ ~text.value.parses THEN Err
        ELSE Ok(OpenVASInBuildFunctions(text.value.definitions, path))

\* find_origin_location answering only queries from the table's own file
find_origin_location_own(i, sp) ==
    IF i.origin = sp.origin
    THEN MapSeq(find_definitions(i.definitions, i.origin, sp),
                LAMBDA x : <<i.origin, x.start>>)
    ELSE <<>>

\* OpenVASInBuildFunctions::find_origin_location
find_origin_location(i, sp) ==
    MapSeq(find_definitions(i.definitions, i.origin, sp),
           LAMBDA x : <<i.origin, x.start>>)

\* path.ends_with(suffix)
ends_with(path, suffix) ==
    /\ Len(path) >= Len(suffix)
    /\ SubSeq(path, Len(path) - Len(suffix) + 1, Len(path)) = suffix

\* Cache::set_internal: the new value of Cache.internal
\* set_internal, were a file that cannot be read or parsed to empty the slot
set_internal_reset(fsys, internal, path) ==
    LET vp == IF ends_with(path, ".c") THEN path ELSE path \o "/nasl/nasl_init.c"
        i  == from_path(fsys, vp)
    IN  IF i.kind = "ok" THEN Some(i.value) ELSE None

set_internal(fsys, internal, path) ==
    LET vp == IF ends_with(path, ".c") THEN path ELSE path \o "/nasl/nasl_init.c"
        i  == from_path(fsys, vp)
    IN  IF i.kind = "ok" THEN Some(i.value) ELSE internal

\* Cache::update_paths: the new value of Cache.paths
update_paths(paths, new) == paths \o new

starts_with(path, prefix) ==
    /\ Len(path) >= Len(prefix)
    /\ SubSeq(path, 1, Len(prefix)) = prefix

\* interpret::from_path, of which the cache holds the results: the file
\* read and parsed
interpret_from_path(fsys, path) ==
    IF read(fsys, path).kind = "err" \/ ~read(fsys, path).value.parses THEN Err
    ELSE Ok([origin |-> path, code |-> read(fsys, path).value])

\* Cache::load_plugins: the keys of the map it returns in a run in which no
\* worker times out before its last path arrives, the .inc and .nasl files
\* under the roots that are read and parsed
load_plugins(fsys, paths) ==
    {p \in DOMAIN fsys :
        /\ \E k \in 1..Len(paths) :
              \/ p = strip_prefix(paths[k])
              \/ starts_with(p, strip_prefix(paths[k]) \o "/")
        /\ ends_with(p, ".inc") \/ ends_with(p, ".nasl")
        /\ interpret_from_path(fsys, p).kind = "ok"}

\* Cache::update: what it returns
cache_update(fsys, path) ==
    IF interpret_from_path(fsys, path).kind = "ok"
    THEN Some(interpret_from_path(fsys, path).value)
    ELSE None

\* Cache::find over the plugins in the order the map iterates them
cache_find(order, path) == SelectSeq(order, LAMBDA k : ends_with(k, path))

\* AsRangeExt::as_range
as_range(point) ==
    [start |-> [line |-> point.row, character |-> point.column],
     end   |-> [line |-> point.row, character |-> point.column]]

\* handler.rs location: Url::from_str of file:// before an absolute path
\* gives the URL of that text
location(path, point) == [uri |-> FileScheme \o path, range |-> as_range(point)]

\* Url::path of a file URI
uri_path(uri) == strip_prefix(uri)

\* the locations of one Definitions under the requesting file's path
locations_of_requesting(d, sp) ==
    MapSeq(find_points(d, sp), LAMBDA point : location(sp.origin, point))

\* the locations of one Definitions: handler.rs 111-117
locations_of(d, sp) ==
    MapSeq(find_points(d, sp), LAMBDA point : location(d.origin, point))

\* the locations of the built-ins table: handler.rs 122-127
builtin_locations(i, sp) ==
    MapSeq(find_origin_location(i, sp), LAMBDA pp : location(pp[1], pp[2]))

\* the fallback consulting the built-ins whatever the NASL files gave
builtin_always(found, internal, sp) ==
    IF internal # None
    THEN [found |-> found \o builtin_locations(internal[1], sp), consulted |-> TRUE]
    ELSE [found |-> found, consulted |-> FALSE]

\* handler.rs 120-129: the built-ins are asked only for an empty list
builtin_fallback(found, internal, sp) ==
    IF found = <<>> /\ internal # None
    THEN [found |-> found \o builtin_locations(internal[1], sp), consulted |-> TRUE]
    ELSE [found |-> found, consulted |-> FALSE]

\* what handling a request computed; result is the Option the handler
\* returns: None, or Some(GotoDefinitionResponse::Array)
Handled(result, sp, nasl, consulted) ==
    [crashed |-> FALSE, result |-> result, sp |-> sp, nasl |-> nasl,
     consulted |-> consulted]

\* the include recursion overflowed the stack
Crashed(sp) ==
    [crashed |-> TRUE, result |-> None, sp |-> sp, nasl |-> <<>>,
     consulted |-> FALSE]

\* handler.rs interprete: the loader the handler calls, line for line the
\* loader of interpret.rs
interprete(fsys, path, paths, code, depth) ==
    new_with_includes(fsys, path, paths, code, depth)

\* handler.rs 109-118: the locations every loaded Definitions contributes
nasl_locations(interprets, sp) ==
    Flatten(MapSeq(interprets, LAMBDA d : locations_of(d, sp)))

\* handler.rs 131: Some(Array(found)) of what the fallback left in found
answered(fb, sp, nasl) == Handled(Some(fb.found), sp, nasl, fb.consulted)

\* handler.rs 120-131 for the list nasl the NASL files gave
handle_found(nasl, internal, sp) ==
    answered(builtin_fallback(nasl, internal, sp[1]), sp, nasl)

\* handler.rs 98-131 for the outcome loaded of interprete: Err is vec![]
handle_loaded(loaded, internal, sp) ==
    IF loaded.kind = "overflow" THEN Crashed(sp)
    ELSE handle_found(
             nasl_locations(IF loaded.kind = "ok" THEN loaded.value ELSE <<>>, sp[1]),
             internal, sp)

\* handler.rs 97-131 for the Option sp the identifier lookup gave
handle_identified(fsys, path, paths, internal, code, sp) ==
    IF sp = None THEN Handled(None, None, <<>>, FALSE)
    ELSE handle_loaded(interprete(fsys, path, paths, Some(code), MaxDepth),
                       internal, sp)

\* handler.rs 90-131 for the Result text of reading the file
handle_read(fsys, path, paths, internal, params, text) ==
    IF text.kind = "err" THEN Handled(None, None, <<>>, FALSE)
    ELSE handle_identified(fsys, path, paths, internal, text.value,
                           search_parameter(path, text.value, params.line,
                                            params.character))

\* Cache::handle of GotoDefinitionParams
handle(fsys, paths, internal, params) ==
    handle_read(fsys, uri_path(params.uri), paths, internal, params,
                read(fsys, uri_path(params.uri)))

\* serde_json::to_value of the handler's Option
to_value(result) ==
    IF result = None THEN [json |-> "null"]
    ELSE [json |-> "array", items |-> result[1]]

\* the Response send_response builds
Response(id, result) == [id |-> id, result |-> to_value(result), error |-> None]

----------------------------------------------------------------------------
(* Spec: the server's cache and its go-to-definition handler over a        *)
(* workspace of one script, its include under two roots and the OpenVAS    *)
(* table of built-ins.                                                     *)

MaxPaths == 2

Helper1 == "/r1/b.inc"
Helper2 == "/r2/b.inc"
NaslInit == "/ov/nasl/nasl_init.c"

\*  1  function test(a) {
\*  2      b = a;
\*  3      return b;
\*  4  }
\* 10  a = 1;
\* 11  helper(a);
\* 12  script_name("x");
\* 13  include("b.inc");
ScriptIdents ==
    <<Span(1, 9, 1, 13, Some("test")), FunParam("a"), FunLocal("b"),
      Span(2, 8, 2, 9, Some("a")), Span(3, 11, 3, 12, Some("b")),
      TopAssign("a"), Span(11, 0, 11, 6, Some("helper")),
      Span(11, 7, 11, 8, Some("a")), Span(12, 0, 12, 11, Some("script_name")),
      Span(13, 0, 13, 7, Some("include"))>>

ScriptDefinitions ==
    <<FunDef(FunRegion(Some("test")), <<FunParam("a")>>),
      Block(FunBody, NASLDefinitions(<<Assign(FunLocal("b"))>>, Primary, <<>>)),
      Assign(TopAssign("a"))>>

ScriptCode(parses) == Code(parses, ScriptIdents, ScriptDefinitions, <<"b.inc">>)

\*  0  function helper() {
\*  1      a = 2;
\*  2  }
\*  3  include(...);
HelperCode(origin, includes) ==
    Code(TRUE,
         <<Span(0, 9, 0, 15, Some("helper")), Span(1, 4, 1, 5, Some("a"))>>,
         <<FunDef(Span(0, 0, 2, 1, Some("helper")), <<>>),
           Block(Span(0, 18, 2, 1, None),
                 NASLDefinitions(<<Assign(Span(1, 4, 1, 5, Some("a")))>>, origin, <<>>))>>,
         includes)

\* static init_func libfuncs[] = { {"script_name", ...}, {"helper", ...} };
\* the FunDefs OpenVASInBuildFunctions::new makes of it
BuiltinsCode(parses) ==
    Code(parses, <<>>,
         <<FunDef(Ident(Point(3, 41), Point(0, 0), Some("script_name")), <<>>),
           FunDef(Ident(Point(4, 41), Point(0, 0), Some("helper")), <<>>)>>,
         <<>>)

Workspaces ==
    {[p \in {Primary, Helper1, Helper2, NaslInit} |->
        CASE p = Primary -> a
          [] p = Helper1 -> b1
          [] p = Helper2 -> b2
          [] OTHER -> c] :
        a  \in {File("unreadable", NoCode), File("file", ScriptCode(TRUE)),
                File("file", ScriptCode(FALSE))},
        b1 \in {File("absent", NoCode), File("file", HelperCode(Helper1, <<>>)),
                File("file", HelperCode(Helper1, <<"b.inc">>))},
        b2 \in {File("absent", NoCode), File("file", HelperCode(Helper2, <<>>))},
        c  \in {File("absent", NoCode), File("file", BuiltinsCode(TRUE)),
                File("file", BuiltinsCode(FALSE))}}

\* the roots the client names: workspace folders are URIs, settings paths
WorkspaceFolders == {<<>>, <<"file:///r1">>}
PathSettings == {<<"file:///r1">>, <<"/r2">>}
OpenvasSettings == {"/ov", "/ov/nasl/nasl_init.c", "/r1"}

RequestIds == {1, 2}

\* on the use of a in the function body, on helper, on script_name, on
\* include (defined nowhere), on an empty line
CursorPoints == {<<2, 8>>, <<11, 2>>, <<12, 3>>, <<13, 2>>, <<5, 0>>}

Requests ==
    {[id |-> i, uri |-> FileScheme \o Primary, line |-> q[1], character |-> q[2]] :
        i \in RequestIds, q \in CursorPoints}

\* Cache::new
Init ==
    /\ fs \in Workspaces
    /\ cpaths \in WorkspaceFolders
    /\ cplugins = load_plugins(fs, cpaths)
    /\ cinternal = None
    /\ alive = TRUE
    /\ response = None
    /\ hlast = None
    /\ RIdle
    /\ LIdle
    /\ OIdle

\* Cache::update_paths
UpdatePaths(new) ==
    /\ alive
    /\ Len(cpaths) + Len(new) <= MaxPaths
    /\ cpaths' = update_paths(cpaths, new)
    /\ cplugins' = cplugins \cup load_plugins(fs, new)
    /\ UNCHANGED <<fs, cinternal, alive, response, hlast, rvars, lvars, ovars>>

\* Cache::set_internal
SetInternal(path) ==
    /\ alive
    /\ cinternal' = set_internal(fs, cinternal, path)
    /\ UNCHANGED <<fs, cpaths, cplugins, alive, response, hlast, rvars, lvars, ovars>>

\* RequestResponseSender::send_response over Cache::handle
SendResponse(req) ==
    /\ alive
    /\ hlast' = Some([req |-> req, internal |-> cinternal, paths |-> cpaths,
                       handled |-> handle(fs, cpaths, cinternal, req)])
    /\ alive' = ~hlast'[1].handled.crashed
    /\ response' = IF hlast'[1].handled.crashed THEN response
                   ELSE Some(Response(req.id, hlast'[1].handled.result))
    /\ UNCHANGED <<fs, cpaths, cinternal, cplugins, rvars, lvars, ovars>>

Next ==
    \/ \E new \in PathSettings : UpdatePaths(new)
    \/ \E path \in OpenvasSettings : SetInternal(path)
    \/ \E req \in Requests : SendResponse(req)

Spec == Init /\ [][Next]_vars

----------------------------------------------------------------------------
(* The handler's claims. hlast records the last request handled, the       *)
(* built-ins slot it was handled with and what Cache::handle computed.     *)

HDone == hlast # None

HReq == hlast[1].req

HHandled == hlast[1].handled

\* the handler returned Some(Array(found))
HAnswered == HDone /\ ~HHandled.crashed /\ HHandled.result # None

\* a location of the built-ins table the request was handled with
IsBuiltinLocation(l) ==
    /\ hlast[1].internal # None
    /\ l.uri = FileScheme \o hlast[1].internal[1].origin

\* C6: when a NASL Definitions of the request contributes a location the
\* built-in resolver is not consulted and the response holds the NASL
\* locations only, none of them a built-in location; the built-in resolver is
\* consulted exactly when the NASL list is empty and the built-ins slot is
\* loaded, and then its locations are what is appended to the (empty) list.
C6_BuiltinLastResort ==
    HAnswered =>
        /\ HHandled.nasl # <<>> =>
              /\ ~HHandled.consulted
              /\ response[1].result.items = HHandled.nasl
              /\ \A k \in 1..Len(response[1].result.items) :
                    ~IsBuiltinLocation(response[1].result.items[k])
        /\ HHandled.consulted <=> (HHandled.nasl = <<>> /\ hlast[1].internal # None)
        /\ HHandled.consulted =>
              response[1].result.items =
                  HHandled.nasl \o builtin_locations(hlast[1].internal[1], HHandled.sp[1])
        /\ ~HHandled.consulted => response[1].result.items = HHandled.nasl

\* a NASL file defines the name while the loaded built-ins table defines it
\* too: the response holds the NASL location only
C6_Witness ==
    /\ HAnswered
    /\ HHandled.nasl # <<>>
    /\ hlast[1].internal # None
    /\ builtin_locations(hlast[1].internal[1], HHandled.sp[1]) # <<>>
    /\ ~HHandled.consulted
    /\ response[1].result.items = HHandled.nasl

\* C7: every go-to-definition request, whatever fails while handling it, is
\* answered by a response of its id that carries no error and whose result is
\* an array of locations.
C7_AlwaysArray ==
    HDone =>
        /\ alive
        /\ response # None
        /\ response[1].id = HReq.id
        /\ response[1].error = None
        /\ response[1].result.json = "array"

\* the Definitions the loader gave for the last request
HLoaded ==
    interprete(fs, uri_path(HReq.uri), hlast[1].paths,
               Some(fs[uri_path(HReq.uri)].code), MaxDepth)

\* the Location of an identifier found in a file: zero-width at its start
ZeroWidthAt(origin, id) ==
    [uri   |-> "file://" \o origin,
     range |-> [start |-> [line |-> id.start.row, character |-> id.start.column],
                end   |-> [line |-> id.start.row, character |-> id.start.column]]]

\* the Locations of the identifiers resolving yields in one Definitions
ZeroWidthOf(d, sp) ==
    MapSeq(find_definitions(d.definitions, d.origin, sp),
           LAMBDA id : ZeroWidthAt(d.origin, id))

\* C13: every Identifier resolving yields in a Definitions of origin o
\* becomes, in order, a Location whose URI is file:// followed by o (the
\* included file's path for an included file) and whose range is zero-width
\* at the identifier's start point.
C13_LocationOfOrigin ==
    HAnswered =>
        HHandled.nasl =
            Flatten(MapSeq(HLoaded.value, LAMBDA d : ZeroWidthOf(d, HHandled.sp[1])))

\* a name defined in an included file: the response holds a Location under
\* the included file's path, which is not the requesting file's
C13_Witness ==
    /\ HAnswered
    /\ \E k \in 1..Len(response[1].result.items) :
          /\ response[1].result.items[k].uri # HReq.uri
          /\ response[1].result.items[k].uri \in {"file://" \o Helper1, "file://" \o Helper2}
          /\ response[1].result.items[k].range.start = response[1].result.items[k].range.end
          /\ response[1].result.items[k].range.start = [line |-> 0, character |-> 0]

\* the file set_internal reads for a configured path
internal_path(path) ==
    IF ends_with(path, ".c") THEN path ELSE path \o "/nasl/nasl_init.c"

\* the configured paths whose file is read and parsed
Loadable == {p \in OpenvasSettings : from_path(fs, internal_path(p)).kind = "ok"}

\* C15: the built-ins slot is Empty after Cache::new; a step changes it only
\* by a set_internal whose file is read and parsed, which leaves it Loaded
\* with that file's table and touches nothing else of the cache; no step
\* takes a Loaded slot back to Empty.
C15_SlotLifecycle ==
    /\ cinternal = None
    /\ [][/\ cinternal # None => cinternal' # None
          /\ cinternal' # cinternal =>
                /\ \E p \in Loadable :
                      cinternal' = Some(from_path(fs, internal_path(p)).value)
                /\ UNCHANGED <<cpaths, cplugins, alive, response, hlast>>]_vars

\* the slot is Loaded while a configured path exists whose file cannot be
\* read: a set_internal of that path is a step that must leave it Loaded
C15_Witness ==
    /\ alive
    /\ cinternal # None
    /\ OpenvasSettings \ Loadable # {}
    /\ hlast # None

----------------------------------------------------------------------------
(* tree_sitter::Node: a node of the concrete syntax tree.  children are    *)
(* the named children in source order, anon counts the anonymous ones      *)
(* (punctuation, keywords), fields maps a field name to the index of the   *)
(* named child holding that role, text is code[byte_range] of a leaf.      *)

Node(kind, start, end, text, children, fields, anon) ==
    [kind |-> kind, start |-> start, end |-> end, text |-> text,
     children |-> children, fields |-> fields, anon |-> anon]

NoFields == [f \in {} |-> 0]

\* Node::child_count
child_count(n) == Len(n.children) + n.anon

\* Node::child_by_field_name
child_by_field_name(n, f) ==
    IF f \in DOMAIN n.fields THEN Some(n.children[n.fields[f]]) ELSE None

\* filter_map over an Option-valued Op
FilterMap(s, Op(_)) ==
    Flatten([k \in 1..Len(s) |-> Op(s[k])])

----------------------------------------------------------------------------
(* node_ext.rs: the extractor                                              *)

\* walk_named_children with an f that extends the result by Op(child)
walk_named_children(n, Op(_)) == Flatten([k \in 1..Len(n.children) |-> Op(n.children[k])])

\* IdentifierExt::identifier
identifier(n) ==
    IF n.kind = "identifier" THEN Some(Ident(n.start, n.end, Some(n.text)))
    ELSE None

\* Argument::StringLiteral
StringLiteral(id) == [tag |-> "StringLiteral", id |-> id]

\* Argument::to_string
to_string(a) == a.id.identifier

\* FuncDeclaratorExt::parameter_list
parameter_list(n) ==
    IF n.kind = "parameter_list" THEN walk_named_children(n, identifier)
    ELSE <<>>

\* FuncDeclaratorExt::func_declarator for the declarator c found, with
\* container.parent
func_declarator_of(n, c, parent) ==
    IF identifier(c) = None \/ parent = None THEN None
    ELSE Some(FunDef(Ident(parent[1].start, parent[1].end, identifier(c)[1].identifier),
                     IF child_by_field_name(n, "parameters") = None THEN <<>>
                     ELSE parameter_list(child_by_field_name(n, "parameters")[1])))

\* func_declarator giving the FunDef the range of the declarator alone
func_declarator_own(n, parent) ==
    IF n.kind = "function_declarator" /\ child_by_field_name(n, "declarator") # None
    THEN func_declarator_of(n, child_by_field_name(n, "declarator")[1], Some(n))
    ELSE None

\* FuncDeclaratorExt::func_declarator
func_declarator(n, parent) ==
    IF n.kind = "function_declarator" /\ child_by_field_name(n, "declarator") # None
    THEN func_declarator_of(n, child_by_field_name(n, "declarator")[1], parent)
    ELSE None

\* AssignmentExpressionExt::assignment_expression
assignment_expression(n) ==
    IF /\ n.kind = "assignment_expression"
       /\ child_by_field_name(n, "left") # None
       /\ identifier(child_by_field_name(n, "left")[1]) # None
    THEN <<Assign(identifier(child_by_field_name(n, "left")[1])[1])>>
    ELSE <<>>

\* StringLiteralExt::string_literal: the first named child, when it is a
\* string_fragment
string_literal(n) ==
    IF /\ n.kind = "string_literal"
       /\ n.children # <<>>
       /\ n.children[1].kind = "string_fragment"
    THEN Some(StringLiteral(Ident(n.children[1].start, n.children[1].end,
                                  Some(n.children[1].text))))
    ELSE None

\* CallExpressionExt::argument_list
argument_list(n) ==
    IF n.kind = "argument_list" THEN walk_named_children(n, string_literal)
    ELSE <<>>

\* CallExpressionExt::call_expression
call_expression(n) ==
    IF /\ n.kind = "call_expression"
       /\ child_by_field_name(n, "function") # None
       /\ identifier(child_by_field_name(n, "function")[1]) # None
    THEN <<CallExpression(
               identifier(child_by_field_name(n, "function")[1])[1],
               IF child_by_field_name(n, "arguments") # None
               THEN argument_list(child_by_field_name(n, "arguments")[1])
               ELSE <<>>)>>
    ELSE <<>>

\* the closure of expression_statement
call_or_assignment(c) == call_expression(c) \o assignment_expression(c)

\* ExpressionStatementExt::expression_statement
expression_statement(n) ==
    IF n.kind = "expression_statement"
    THEN walk_named_children(n, call_or_assignment)
    ELSE <<>>

RECURSIVE parenthesized_expression(_)
RECURSIVE binary_expression(_)
RECURSIVE in_parentheses(_)
RECURSIVE compound_statement(_, _)
RECURSIVE func_def(_, _)
RECURSIVE if_statement(_, _)
RECURSIVE jumpable(_, _)
RECURSIVE NASLDefinitions_new(_, _)

\* BinaryExpressionExt::binary_expression
binary_expression(n) ==
    IF n.kind = "binary_expression"
    THEN walk_named_children(n, parenthesized_expression)
    ELSE <<>>

\* the closure of parenthesized_expression
in_parentheses(c) ==
    binary_expression(c) \o assignment_expression(c) \o parenthesized_expression(c)

\* ParenthesizedExpressionExt::parenthesized_expression
parenthesized_expression(n) ==
    IF n.kind = "parenthesized_expression"
    THEN walk_named_children(n, in_parentheses)
    ELSE <<>>

\* compound_statement handing the entries of the block to the enclosing
\* Definitions
compound_statement_flat(n, origin) ==
    IF n.kind = "compound_statement" THEN jumpable(n, origin) ELSE <<>>

\* CompoundExt::compound_statement
compound_statement(n, origin) ==
    IF n.kind = "compound_statement"
    THEN <<Block(Ident(n.start, n.end, None), NASLDefinitions_new(origin, n))>>
    ELSE <<>>

\* FuncDefExt::func_def
func_def(n, origin) ==
    IF n.kind = "function_definition"
    THEN Flatten([k \in 1..Len(n.children) |->
                     IF func_declarator(n.children[k], Some(n)) # None
                     THEN func_declarator(n.children[k], Some(n))
                     ELSE compound_statement(n.children[k], origin)])
    ELSE <<>>

\* the bindings of an if condition: the Assign entries of its parentheses
assignments(js) ==
    FilterMap(js, LAMBDA j : IF j.tag = "Assign" THEN <<j.id>> ELSE <<>>)

\* the branch of an if statement held by the field
branch(n, field, origin, withElseIf) ==
    IF child_by_field_name(n, field) = None THEN <<>>
    ELSE (IF withElseIf THEN if_statement(child_by_field_name(n, field)[1], origin)
          ELSE <<>>)
         \o compound_statement(child_by_field_name(n, field)[1], origin)
         \o expression_statement(child_by_field_name(n, field)[1])

\* IfStatementExt::if_statement
if_statement(n, origin) ==
    IF n.kind = "if_statement"
    THEN (IF child_by_field_name(n, "condition") # None
          THEN <<IfDef(Ident(n.start, n.end, None),
                       assignments(parenthesized_expression(
                           child_by_field_name(n, "condition")[1])))>>
          ELSE <<>>)
         \o branch(n, "consequence", origin, FALSE)
         \o branch(n, "alternative", origin, TRUE)
    ELSE <<>>

\* JumpableExt::jumpable
jumpable(n, origin) ==
    Flatten([k \in 1..Len(n.children) |->
                func_def(n.children[k], origin)
                \o expression_statement(n.children[k])
                \o compound_statement(n.children[k], origin)
                \o if_statement(n.children[k], origin)])

\* includes fed by the string arguments of every call, whatever its name
include_params_anycall(j) ==
    IF j.tag = "CallExpression" THEN FilterMap(j.params, to_string) ELSE <<>>

\* the strings an entry adds to includes: interpret.rs 144-150
include_params(j) ==
    IF j.tag = "CallExpression" /\ j.id.identifier = Some("include")
    THEN FilterMap(j.params, to_string)
    ELSE <<>>

\* NASLDefinitions::new for the entries js of the node
definitions_of(js, origin) ==
    NASLDefinitions(SelectSeq(js, is_definition), origin, FilterMap(js, include_params))

\* NASLDefinitions::new
NASLDefinitions_new(origin, node) == definitions_of(jumpable(node, origin), origin)

----------------------------------------------------------------------------
(* lookup.rs: Lookup and its call container                                *)

\* CallContainer::items yielding every call, whatever its name
items_anyname(calls, name) ==
    FilterMap(calls, LAMBDA i : IF i.tag = "CallExpression"
                                THEN <<<<i.id, i.params>>>> ELSE <<>>)

\* CallContainer::items
items(calls, name) ==
    FilterMap(calls, LAMBDA i : IF i.tag = "CallExpression" /\ i.id.identifier = Some(name)
                                THEN <<<<i.id, i.params>>>> ELSE <<>>)

\* Lookup {definitions, calls, includes}
Lookup(definitions, calls, includes) ==
    [definitions |-> definitions, calls |-> calls, includes |-> includes]

\* the includes of Lookup::new: lookup.rs 143-147
lookup_includes(calls) ==
    FilterMap(Flatten(MapSeq(items(calls, "include"), LAMBDA c : c[2])), to_string)

\* Lookup::new for the entries js of the node
lookup_of(js, origin) ==
    Lookup([definitions |-> SelectSeq(js, is_definition), origin |-> origin],
           SelectSeq(js, LAMBDA j : ~is_definition(j)),
           lookup_includes(SelectSeq(js, LAMBDA j : ~is_definition(j))))

\* Lookup::new
Lookup_new(origin, node) == lookup_of(jumpable(node, origin), origin)

\* Lookup::find_calls
find_calls(lookup, name) == items(lookup.calls, name)

----------------------------------------------------------------------------
(* interpret.rs: the identifier under the cursor, over the syntax tree     *)

\* Iterator::next of a filter_map: the first Some
first_some(opts) == IF Flatten(opts) = <<>> THEN None ELSE Some(Flatten(opts)[1])

\* Iterator::last instead: the last Some
last_some(opts) ==
    IF Flatten(opts) = <<>> THEN None ELSE Some(Flatten(opts)[Len(Flatten(opts))])

\* find_identifier taking the last identifier that contains pos
RECURSIVE find_identifier_last(_, _)
find_identifier_last(pos, n) ==
    IF /\ F32Le(to_pos(n.start.row, n.start.column), pos)
       /\ F32Le(pos, to_pos(n.end.row, n.end.column))
    THEN IF child_count(n) = 0 /\ n.kind = "identifier" THEN Some(n.text)
         ELSE last_some([k \in 1..Len(n.children) |->
                            find_identifier_last(pos, n.children[k])])
    ELSE None

\* find_identifier (interpret.rs 118-132) returning the text of the byte
\* range it finds
RECURSIVE find_identifier_node(_, _)
find_identifier_node(pos, n) ==
    IF /\ F32Le(to_pos(n.start.row, n.start.column), pos)
       /\ F32Le(pos, to_pos(n.end.row, n.end.column))
    THEN IF child_count(n) = 0 /\ n.kind = "identifier" THEN Some(n.text)
         ELSE first_some([k \in 1..Len(n.children) |->
                             find_identifier_node(pos, n.children[k])])
    ELSE None

\* the SearchParameter of the name found, if any
named_at(origin, name, pos) ==
    IF name = None THEN None ELSE Some(SearchParameter(origin, name[1], pos))

\* NASLDefinitions::search_parameter for the outcome parsed of nasl_tree
search_parameter_tree(origin, parsed, line, column) ==
    IF parsed.kind = "err" THEN None
    ELSE named_at(origin,
                  find_identifier_node(to_pos(line, column), parsed.value),
                  to_pos(line, column))

----------------------------------------------------------------------------
(* The syntax trees the extractor is applied to: a file of up to MaxStmts  *)
(* statements, statement k starting on row RowsPerStmt * (k - 1).          *)

MaxStmts == 2

RowsPerStmt == 4

Leaf(kind, r, c, text) ==
    Node(kind, Point(r, c), Point(r, c + Len(text)), text, <<>>, NoFields, 0)

Id(r, c, name) == Leaf("identifier", r, c, name)

Num(r, c, text) == Leaf("number_literal", r, c, text)

\* "inner": a string_fragment child unless the literal is empty
Str(r, c, inner) ==
    Node("string_literal", Point(r, c), Point(r, c + Len(inner) + 2),
         "\"" \o inner \o "\"",
         IF inner = "" THEN <<>> ELSE <<Leaf("string_fragment", r, c + 1, inner)>>,
         NoFields, 2)

\* an argument: [k |-> "str" | "id" | "num", t |-> its text]
Arg(k, t) == [k |-> k, t |-> t]

ArgNode(r, c, a) ==
    CASE a.k = "str" -> Str(r, c, a.t)
      [] a.k = "id"  -> Id(r, c, a.t)
      [] OTHER       -> Num(r, c, a.t)

RECURSIVE PlaceArgs(_, _, _)
PlaceArgs(r, c, as) ==
    IF as = <<>> THEN <<>>
    ELSE <<ArgNode(r, c, Head(as))>>
         \o PlaceArgs(r, ArgNode(r, c, Head(as)).end.column + 2, Tail(as))

LastColumn(ns, c) == IF ns = <<>> THEN c ELSE ns[Len(ns)].end.column

\* (args)
ArgList(r, c, as) ==
    Node("argument_list", Point(r, c),
         Point(r, LastColumn(PlaceArgs(r, c + 1, as), c + 1) + 1), "",
         PlaceArgs(r, c + 1, as), NoFields, 2)

\* callee(args)
Call(r, c, callee, as) ==
    Node("call_expression", Point(r, c), ArgList(r, c + Len(callee), as).end, "",
         <<Id(r, c, callee), ArgList(r, c + Len(callee), as)>>,
         ("function" :> 1) @@ ("arguments" :> 2), 0)

\* (x)(args): the callee is no identifier
CallOfParens(r, c, as) ==
    Node("call_expression", Point(r, c), ArgList(r, c + 3, as).end, "",
         <<Node("parenthesized_expression", Point(r, c), Point(r, c + 3), "",
                <<Id(r, c + 1, "x")>>, NoFields, 2),
           ArgList(r, c + 3, as)>>,
         ("function" :> 1) @@ ("arguments" :> 2), 0)

\* name = rhs, the right side placed by the caller at c + Len(name) + 3
AssignExpr(r, c, name, rhs) ==
    Node("assignment_expression", Point(r, c), rhs.end, "",
         <<Id(r, c, name), rhs>>, ("left" :> 1) @@ ("right" :> 2), 1)

\* e;
ExprStmt(e) ==
    Node("expression_statement", e.start, Point(e.end.row, e.end.column + 1), "",
         <<e>>, NoFields, 1)

\* { on row r, the statements on the rows after it, } on row r2
Compound(r, c, stmts, r2) ==
    Node("compound_statement", Point(r, c), Point(r2, 1), "", stmts, NoFields, 2)

\* function name(param) { body } over rows r .. r + 2
FunctionDef(r, name, param, body) ==
    Node("function_definition", Point(r, 0), Point(r + 2, 1), "",
         <<Node("function_declarator", Point(r, 9), Point(r, 12 + Len(name)), "",
                <<Id(r, 9, name),
                  Node("parameter_list", Point(r, 9 + Len(name)),
                       Point(r, 12 + Len(name)), "",
                       <<Id(r, 10 + Len(name), param)>>, NoFields, 2)>>,
                ("declarator" :> 1) @@ ("parameters" :> 2), 0),
           Compound(r, 13 + Len(name), body, r + 2)>>,
         ("declarator" :> 1) @@ ("body" :> 2), 1)

\* ((name = 12))
Condition(r, c, name) ==
    Node("parenthesized_expression", Point(r, c), Point(r, c + Len(name) + 9), "",
         <<Node("parenthesized_expression", Point(r, c + 1),
                Point(r, c + Len(name) + 8), "",
                <<AssignExpr(r, c + 2, name, Num(r, c + Len(name) + 5, "12"))>>,
                NoFields, 2)>>,
         NoFields, 2)

\* if ((name = 12)) consequence
If(r, name, consequence) ==
    Node("if_statement", Point(r, 0), consequence.end, "",
         <<Condition(r, 3, name), consequence>>,
         ("condition" :> 1) @@ ("consequence" :> 2), 1)

\* if ((name = 12)) consequence else alternative
IfElse(r, name, consequence, alternative) ==
    Node("if_statement", Point(r, 0), alternative.end, "",
         <<Condition(r, 3, name), consequence, alternative>>,
         ("condition" :> 1) @@ ("consequence" :> 2) @@ ("alternative" :> 3), 2)

\* (inner), the inner node placed one column after the opening parenthesis
Paren(inner) ==
    Node("parenthesized_expression",
         Point(inner.start.row, inner.start.column - 1),
         Point(inner.end.row, inner.end.column + 1), "",
         <<inner>>, NoFields, 2)

\* left op right
Binary(left, right) ==
    Node("binary_expression", left.start, right.end, "",
         <<left, right>>, ("left" :> 1) @@ ("right" :> 2), 1)

\* (name = value) == lit, the parenthesis in column c
Compared(r, c, name, value, lit) ==
    Binary(Paren(AssignExpr(r, c + 1, name, Num(r, c + Len(name) + 4, value))),
           Num(r, c + Len(name) + Len(value) + 9, lit))

\* if condition consequence
IfCond(r, condition, consequence) ==
    Node("if_statement", Point(r, 0), consequence.end, "",
         <<condition, consequence>>,
         ("condition" :> 1) @@ ("consequence" :> 2), 1)

StatementKinds ==
    {"include", "include2", "includeEmpty", "test", "testId", "assign",
     "assignCall", "block", "ifInclude", "ifBlock", "function", "parensCall",
     "longLine"}

\* the statement of a kind, starting on row r
Statement(kind, r) ==
    CASE kind = "include" ->
            \* include("b.inc");
            ExprStmt(Call(r, 0, "include", <<Arg("str", "b.inc")>>))
      [] kind = "include2" ->
            \* include(x, "c.inc", "d.inc");
            ExprStmt(Call(r, 0, "include",
                          <<Arg("id", "x"), Arg("str", "c.inc"), Arg("str", "d.inc")>>))
      [] kind = "includeEmpty" ->
            \* include("");
            ExprStmt(Call(r, 0, "include", <<Arg("str", "")>>))
      [] kind = "test" ->
            \* test("b.inc", 1);
            ExprStmt(Call(r, 0, "test", <<Arg("str", "b.inc"), Arg("num", "1")>>))
      [] kind = "testId" ->
            \* test(a);
            ExprStmt(Call(r, 0, "test", <<Arg("id", "a")>>))
      [] kind = "assign" ->
            \* a = 1;
            ExprStmt(AssignExpr(r, 0, "a", Num(r, 4, "1")))
      [] kind = "assignCall" ->
            \* a = include("v.inc");
            ExprStmt(AssignExpr(r, 0, "a",
                                Call(r, 4, "include", <<Arg("str", "v.inc")>>)))
      [] kind = "block" ->
            \* { include("n.inc"); }
            Compound(r, 0,
                     <<ExprStmt(Call(r + 1, 4, "include", <<Arg("str", "n.inc")>>))>>,
                     r + 2)
      [] kind = "ifInclude" ->
            \* if ((d = 12)) include("i.inc"); else include("e.inc");
            IfElse(r, "d",
                   ExprStmt(Call(r, 14, "include", <<Arg("str", "i.inc")>>)),
                   ExprStmt(Call(r + 1, 5, "include", <<Arg("str", "e.inc")>>)))
      [] kind = "ifBlock" ->
            \* if ((d = 12)) { include("j.inc"); }
            If(r, "d",
               Compound(r, 14,
                        <<ExprStmt(Call(r + 1, 4, "include", <<Arg("str", "j.inc")>>))>>,
                        r + 2))
      [] kind = "function" ->
            \* function test(a) { include("f.inc"); }
            FunctionDef(r, "test", "a",
                        <<ExprStmt(Call(r + 1, 4, "include", <<Arg("str", "f.inc")>>))>>)
      [] kind = "ifBinary" ->
            \* if (((d = 23) == 1) || ((e = 42) == 42)) f = d;
            IfCond(r, Paren(Binary(Paren(Compared(r, 5, "d", "23", "1")),
                                   Paren(Compared(r, 24, "e", "42", "42")))),
                   ExprStmt(AssignExpr(r, 41, "f", Id(r, 45, "d"))))
      [] kind = "ifFlat" ->
            \* if ((d = 23) == 1 || (e = 42) == 42) f = d;
            IfCond(r, Paren(Binary(Compared(r, 4, "d", "23", "1"),
                                   Compared(r, 21, "e", "42", "42"))),
                   ExprStmt(AssignExpr(r, 37, "f", Id(r, 41, "d"))))
      [] kind = "ifChain" ->
            \* if ((d = 12)) a = 1; else
            \* if ((e = 12)) a = 2;
            IfElse(r, "d",
                   ExprStmt(AssignExpr(r, 14, "a", Num(r, 18, "1"))),
                   If(r + 1, "e",
                      ExprStmt(AssignExpr(r + 1, 14, "a", Num(r + 1, 18, "2")))))
      [] kind = "parensCall" ->
            \* (x)("p.inc");
            ExprStmt(CallOfParens(r, 0, <<Arg("str", "p.inc")>>))
      [] OTHER ->
            \* a call ending in column 100 of the last row before the next
            \* statement
            ExprStmt(Call(r + RowsPerStmt - 1, 94, "test", <<Arg("id", "b")>>))

\* the root node
SourceFile(stmts) ==
    Node("source_file", Point(0, 0), Point(RowsPerStmt * Len(stmts), 0), "",
         stmts, NoFields, 0)

Trees ==
    {SourceFile([k \in 1..Len(ks) |-> Statement(ks[k], RowsPerStmt * (k - 1))]) :
        ks \in SeqsUpTo(StatementKinds, MaxStmts)}

\* nasl_tree: tree-sitter gives a tree for any text once the language is set
ParseResults == {Err} \cup {Ok(t) : t \in Trees}

CallNames == {"include", "test", "a"}

\* on a callee, on its last column, in an argument, on the first column of
\* the second statement, on a row below
ExtractPoints == {<<0, 2>>, <<0, 7>>, <<0, 5>>, <<1, 6>>, <<4, 0>>, <<3, 99>>}

ExtractOrigin == "/r1/a.nasl"

----------------------------------------------------------------------------
(* SpecExtract: the extractor, Lookup::find_calls and search_parameter     *)
(* applied to every tree                                                   *)

XInit ==
    /\ xtree \in ParseResults
    /\ xname \in CallNames
    /\ xpoint \in ExtractPoints
    /\ xdefs = None
    /\ xlookup = None
    /\ xcalls = <<>>
    /\ xsp = None
    /\ xpc = "start"
    /\ fs = NoFiles
    /\ RIdle
    /\ LIdle
    /\ HIdle
    /\ PIdle
    /\ MIdle
    /\ BIdle
    /\ WIdle

\* new_parse_tree, Lookup::new with find_calls, and search_parameter of the
\* text
Extract ==
    /\ xpc = "start"
    /\ xdefs' = IF xtree.kind = "err" THEN None
                ELSE Some(NASLDefinitions_new(ExtractOrigin, xtree.value))
    /\ xlookup' = IF xtree.kind = "err" THEN None
                  ELSE Some(Lookup_new(ExtractOrigin, xtree.value))
    /\ xcalls' = IF xtree.kind = "err" THEN <<>>
                 ELSE find_calls(Lookup_new(ExtractOrigin, xtree.value), xname)
    /\ xsp' = search_parameter_tree(ExtractOrigin, xtree, xpoint[1], xpoint[2])
    /\ xpc' = "done"
    /\ UNCHANGED <<xtree, xname, xpoint, fs, rvars, lvars, hvars, pvars, mvars, bvars, wvars>>

XNext == Extract

SpecExtract == XInit /\ [][XNext]_vars

----------------------------------------------------------------------------
(* SpecStructure: the extractor applied to files of up to MaxItems          *)
(* functions, assignments, calls and if statements                         *)

MaxItems == 4

StructureKinds == {"function", "assign", "testId", "ifBinary", "ifFlat", "ifChain"}

StructureTrees ==
    {SourceFile([k \in 1..Len(ks) |-> Statement(ks[k], RowsPerStmt * (k - 1))]) :
        ks \in SeqsUpTo(StructureKinds, MaxItems)}

SInit ==
    /\ xtree \in {Ok(t) : t \in StructureTrees}
    /\ xname = "test"
    /\ xpoint = <<0, 2>>
    /\ xdefs = None
    /\ xlookup = None
    /\ xcalls = <<>>
    /\ xsp = None
    /\ xpc = "start"
    /\ fs = NoFiles
    /\ RIdle
    /\ LIdle
    /\ HIdle
    /\ PIdle
    /\ MIdle
    /\ BIdle
    /\ WIdle

SpecStructure == SInit /\ [][XNext]_vars

----------------------------------------------------------------------------
(* Claims about the extractor (SpecExtract), stated over the syntax tree   *)

XDone == xpc = "done" /\ xtree.kind = "ok"

XRoot == xtree.value

\* every node of the subtree, depth-first in source order
RECURSIVE Descendants(_)
Descendants(n) ==
    <<n>> \o Flatten([k \in 1..Len(n.children) |-> Descendants(n.children[k])])

HasField(n, f) == f \in DOMAIN n.fields

FieldNode(n, f) == n.children[n.fields[f]]

\* a call whose callee is an identifier
IsCall(n) ==
    /\ n.kind = "call_expression"
    /\ HasField(n, "function")
    /\ FieldNode(n, "function").kind = "identifier"

IsCallOf(n, name) == IsCall(n) /\ FieldNode(n, "function").text = name

IsIncludeCall(n) == IsCallOf(n, "include")

\* the string literals among the arguments of a call
StringArguments(c) ==
    IF HasField(c, "arguments")
    THEN SelectSeq(FieldNode(c, "arguments").children,
                   LAMBDA a : a.kind = "string_literal")
    ELSE <<>>

\* the text of a string literal between its quotes
InnerText(n) == SubSeq(n.text, 2, Len(n.text) - 1)

InnerTexts(c) == MapSeq(StringArguments(c), InnerText)

\* the string_fragment nodes that open a string argument of a call
Fragments(c) ==
    MapSeq(SelectSeq(StringArguments(c),
                     LAMBDA a : a.children # <<>> /\ a.children[1].kind = "string_fragment"),
           LAMBDA a : a.children[1])

FragmentTexts(c) == MapSeq(Fragments(c), LAMBDA g : g.text)

\* the calls that are entries of the Definitions of a node: the calls that
\* are expression statements directly under the node, or the un-braced
\* branch of an if statement directly under it (an else-if chain included)
RECURSIVE StatementCalls(_, _)
StatementCalls(st, followIf) ==
    CASE st.kind = "expression_statement" -> SelectSeq(st.children, IsCall)
      [] st.kind = "if_statement" /\ followIf ->
            (IF HasField(st, "consequence")
             THEN StatementCalls(FieldNode(st, "consequence"), FALSE) ELSE <<>>)
            \o (IF HasField(st, "alternative")
                THEN StatementCalls(FieldNode(st, "alternative"), TRUE) ELSE <<>>)
      [] OTHER -> <<>>

LevelCalls(n) ==
    Flatten([k \in 1..Len(n.children) |-> StatementCalls(n.children[k], TRUE)])

\* every include call of the file, nested ones too
AllIncludeCalls == SelectSeq(Descendants(XRoot), IsIncludeCall)

\* the include calls among the entries of the file's Definitions
LevelIncludeCalls == SelectSeq(LevelCalls(XRoot), IsIncludeCall)

\* C11 as stated: includes is, in source order, the inner text of every
\* string-literal argument of every include call of the file.
C11_Original ==
    XDone =>
        /\ xdefs[1].includes = Flatten(MapSeq(AllIncludeCalls, InnerTexts))
        /\ xlookup[1].includes = Flatten(MapSeq(AllIncludeCalls, InnerTexts))

\* C11: includes (of NASLDefinitions::new and of Lookup::new alike) is, in
\* source order, the string-fragment text of every string-literal argument
\* of every call named exactly include among the entries of the file's own
\* Definitions (top-level expression statements and un-braced if branches);
\* other callees, non-string arguments, and include calls nested in a block,
\* a function body or another expression contribute nothing.
C11_TopLevelIncludes ==
    XDone =>
        /\ xdefs[1].includes = Flatten(MapSeq(LevelIncludeCalls, FragmentTexts))
        /\ xlookup[1].includes = xdefs[1].includes

\* a file whose includes hold two names while an include call nested in a
\* block or a function body is left out
C11_Witness ==
    /\ XDone
    /\ Len(xdefs[1].includes) >= 2
    /\ Len(AllIncludeCalls) > Len(LevelIncludeCalls)
    /\ \E k \in 1..Len(LevelIncludeCalls) :
          Len(FragmentTexts(LevelIncludeCalls[k])) <
              Len(FieldNode(LevelIncludeCalls[k], "arguments").children)

\* the pair find_calls yields for a call of the tree
CallPair(c) ==
    <<Ident(FieldNode(c, "function").start, FieldNode(c, "function").end,
            Some(FieldNode(c, "function").text)),
      MapSeq(Fragments(c), LAMBDA g : StringLiteral(Ident(g.start, g.end, Some(g.text))))>>

\* the calls of xname among the entries of the file
LevelCallsOfName == SelectSeq(LevelCalls(XRoot), LAMBDA c : IsCallOf(c, xname))

\* C12: find_calls(name) yields, in source order, exactly the call entries
\* whose callee is name, each as (id, args) with args the string-literal
\* arguments of the call (any other argument omitted), and no definition.
C12_FindCalls ==
    XDone =>
        /\ xcalls = MapSeq(LevelCallsOfName, CallPair)
        /\ \A k \in 1..Len(xcalls) : xcalls[k][1].identifier = Some(xname)

\* two calls of the name are yielded, one of them with an argument that is
\* no string left out, while the file has a definition entry
C12_Witness ==
    /\ XDone
    /\ Len(xcalls) >= 2
    /\ \E k \in 1..Len(xcalls) :
          Len(xcalls[k][2]) < Len(FieldNode(LevelCallsOfName[k], "arguments").children)
    /\ \E k \in 1..Len(xcalls) : xcalls[k][2] # <<>>
    /\ xlookup[1].definitions.definitions # <<>>

\* pos(line, column) lies in the range of the node, ends included
Contains(n, pos) ==
    /\ F32Le(to_pos(n.start.row, n.start.column), pos)
    /\ F32Le(pos, to_pos(n.end.row, n.end.column))

\* the childless identifier nodes of the subtree whose range, and the range
\* of each ancestor, contains pos: depth-first in source order
RECURSIVE Covering(_, _)
Covering(n, pos) ==
    IF ~Contains(n, pos) THEN <<>>
    ELSE IF n.kind = "identifier" /\ child_count(n) = 0 THEN <<n>>
    ELSE Flatten([k \in 1..Len(n.children) |-> Covering(n.children[k], pos)])

XPos == to_pos(xpoint[1], xpoint[2])

\* C20: search_parameter returns a SearchParameter exactly when a childless
\* identifier node contains pos(line, column) together with all its
\* ancestors; the name is the text of the first such node in depth-first
\* source order, pos is pos(line, column), origin the given origin.
C20_SearchParameter ==
    xpc = "done" =>
        IF xtree.kind = "ok" /\ Covering(XRoot, XPos) # <<>>
        THEN xsp = Some(SearchParameter(ExtractOrigin, Covering(XRoot, XPos)[1].text, XPos))
        ELSE xsp = None

\* two identifiers contain the position and the first one is returned
C20_Witness ==
    /\ XDone
    /\ Len(Covering(XRoot, XPos)) >= 2
    /\ Covering(XRoot, XPos)[1].text # Covering(XRoot, XPos)[2].text
    /\ xsp # None
    /\ xsp[1].name = Covering(XRoot, XPos)[1].text

----------------------------------------------------------------------------
(* SpecPos: to_pos and in_pos applied to points of short and of very long  *)
(* files (types.rs).                                                       *)

\* rows of short files and rows where an f32 has few fraction bits left
PosRows == {0, 1, 15, 65536, 131072, 262144, 262145}

\* columns below 100
PosColumns == {0, 1, 2, 50, 99}

PosPoints == {Point(r, c) : r \in PosRows, c \in PosColumns}

\* (row, column) order
LexLt(p, q) == p.row < q.row \/ (p.row = q.row /\ p.column < q.column)

LexLe(p, q) == p = q \/ LexLt(p, q)

PInit ==
    /\ pa \in PosPoints
    /\ pb \in PosPoints
    /\ pat \in PosPoints
    /\ pposa = None
    /\ pposb = None
    /\ pin = FALSE
    /\ ppc = "start"
    /\ fs = NoFiles
    /\ RIdle
    /\ LIdle
    /\ HIdle
    /\ XIdle
    /\ MIdle
    /\ BIdle
    /\ WIdle

\* to_pos of the two ends, and Identifier::in_pos of the third point
ToPos ==
    /\ ppc = "start"
    /\ pposa' = Some(to_pos(pa.row, pa.column))
    /\ pposb' = Some(to_pos(pb.row, pb.column))
    /\ pin' = in_pos(Ident(pa, pb, None), to_pos(pat.row, pat.column))
    /\ ppc' = "done"
    /\ UNCHANGED <<pa, pb, pat, fs, rvars, lvars, hvars, xvars, mvars, bvars, wvars>>

PNext == ToPos

SpecPos == PInit /\ [][PNext]_vars

PDone == ppc = "done"

\* C17: for columns below 100 the position scalar orders points as
\* (row, column) does, pos(a) < pos(b) iff a < b, and an identifier with
\* range [a, b] contains p iff a <= p <= b, both ends included.
C17_Monotone ==
    PDone =>
        /\ F32Lt(pposa[1], pposb[1]) <=> LexLt(pa, pb)
        /\ pin <=> (LexLe(pa, pat) /\ LexLe(pat, pb))

----------------------------------------------------------------------------
(* SpecLoop: main_loop (main.rs) taking the messages of the connection one *)
(* by one.  The Interpret the cache holds is the parsed file; its methods  *)
(* resolve in the file's own Definitions.                                  *)

MaxMessages == 3

\* Interpret::identifier
Interpret_identifier(inter, line, character) ==
    find_identifier(to_pos(line, character), inter.code.idents)

\* Interpret::find_definition
Interpret_find_definition(inter, name, line, character) ==
    find_points(NASLDefinitions(inter.code.definitions, inter.origin,
                                inter.code.includes),
                SearchParameter(inter.origin, name, to_pos(line, character)))

\* main.rs to_location
to_location(path, point) == [uri |-> FileScheme \o path, range |-> as_range(point)]

\* main.rs find_definition: the file's own definitions under the request's
\* URL, then those of every plugin whose path ends with an include
find_definition(fsys, order, inter, url, name, line, character) ==
    MapSeq(Interpret_find_definition(inter, name, line, character),
           LAMBDA point : [uri |-> url, range |-> as_range(point)])
    \o Flatten(MapSeq(inter.code.includes, LAMBDA i :
         Flatten(MapSeq(cache_find(order, i), LAMBDA k :
           MapSeq(Interpret_find_definition(interpret_from_path(fsys, k).value,
                                            name, line, character),
                  LAMBDA point : to_location(k, point))))))

\* the orders a HashMap of these keys may iterate in
Orders(keys) ==
    {o \in [1..Cardinality(keys) -> keys] : Range(o) = keys}

\* the name load_upd_paths returns: identifier(..).unwrap_or_default()
unwrap_or_default(name) == IF name = None THEN "" ELSE name[1]

DidChangeConfiguration == "workspace/didChangeConfiguration"

GotoDefinition == "textDocument/definition"

\* Settings { settings: Option<Paths> } as the client writes it
Configuration(settings) ==
    [kind |-> "notification", method |-> DidChangeConfiguration, settings |-> settings]

\* the messages a client sends: definition requests on helper and on an
\* empty line, shutdown, a request of another method, configurations with
\* and without paths and openvas, another notification
Messages ==
    {[kind |-> "request", method |-> GotoDefinition, uri |-> FileScheme \o Primary,
      line |-> q[1], character |-> q[2]] : q \in {<<11, 2>>, <<5, 0>>}}
    \cup {[kind |-> "request", method |-> m] : m \in {"shutdown", "textDocument/hover"}}
    \cup {Configuration(Some([paths |-> Some(<<"/r2">>), openvas |-> None])),
          Configuration(Some([paths |-> Some(<<"file:///r1">>), openvas |-> Some("/ov")])),
          Configuration(Some([paths |-> None, openvas |-> Some("/ov")])),
          Configuration(None)}
    \cup {[kind |-> "notification", method |-> "initialized"]}

\* serde_json::from_value::<Settings> with main.rs' Paths { paths: Vec<String> }:
\* Err when settings is given without paths; openvas is not a field
settings_from_value(msg) ==
    IF msg.settings = None THEN Ok(None)
    ELSE IF msg.settings[1].paths = None THEN Err
    ELSE Ok(Some([paths |-> msg.settings[1].paths[1]]))

\* set.settings.map(|i| i.paths).unwrap_or_default()
settings_paths(set) == IF set = None THEN <<>> ELSE set[1].paths

\* the workspace folders of the initialize request
LoopFolders == <<"file:///r1">>

LoopWorkspaces ==
    {w \in Workspaces :
        /\ w[Primary].status = "unreadable" \/ w[Primary].code = ScriptCode(TRUE)
        /\ w[Helper1] = File("file", HelperCode(Helper1, <<>>))
        /\ w[Helper2] = File("file", HelperCode(Helper2, <<>>))
        /\ w[NaslInit] = File("file", BuiltinsCode(TRUE))}

\* main.rs 187-192: Cache::new of the workspace folders
MInit ==
    /\ fs \in LoopWorkspaces
    /\ cpaths = LoopFolders
    /\ cplugins = load_plugins(fs, LoopFolders)
    /\ cinternal = None
    /\ alive = TRUE
    /\ response = None
    /\ hlast = None
    /\ inbox = <<>>
    /\ received = <<>>
    /\ sent = <<>>
    /\ RIdle
    /\ LIdle
    /\ XIdle
    /\ PIdle
    /\ BIdle
    /\ WIdle

\* the transport delivers a message; a request carries the id the client
\* gave it, here its number among the messages
Deliver(msg) ==
    /\ Len(received) < MaxMessages
    /\ received' = Append(received, msg @@ [id |-> Len(received) + 1])
    /\ inbox' = Append(inbox, msg @@ [id |-> Len(received) + 1])
    /\ UNCHANGED <<fs, hvars, sent, rvars, lvars, xvars, pvars, bvars, wvars>>

\* the loop taking the latest message instead of the oldest
recv_latest(queue) ==
    [msg |-> queue[Len(queue)], rest |-> SubSeq(queue, 1, Len(queue) - 1)]

\* main.rs 193, for msg in &connection.receiver: the oldest message
recv(queue) == [msg |-> Head(queue), rest |-> Tail(queue)]

\* the loop is at the head of an iteration with a message to take
Taking == alive /\ inbox # <<>>

\* what the loop sends, with the roots of the cache when it is sent
Sent(resp) == [response |-> resp, roots |-> cpaths]

\* main.rs 196-198: handle_shutdown answers the request and the loop returns
Shutdown ==
    /\ Taking
    /\ recv(inbox).msg.kind = "request"
    /\ recv(inbox).msg.method = "shutdown"
    /\ inbox' = recv(inbox).rest
    /\ response' = Some(Response(recv(inbox).msg.id, None))
    /\ sent' = Append(sent, Sent(response'[1]))
    /\ alive' = FALSE
    /\ UNCHANGED <<fs, cpaths, cinternal, cplugins, hlast, received, rvars, lvars,
                   xvars, pvars, bvars, wvars>>

\* main.rs 251-279 with load_upd_paths and find_definition, the cache's
\* file being inter: Some(Array(found)) is sent
Answer(msg, inter) ==
    \E order \in Orders(cplugins \cup {uri_path(msg.uri)}) :
        /\ response' = Some(Response(msg.id,
              Some(find_definition(fs, order, inter, msg.uri,
                      unwrap_or_default(Interpret_identifier(inter, msg.line,
                                                             msg.character)),
                      msg.line, msg.character))))
        /\ sent' = Append(sent, Sent(response'[1]))
        /\ cplugins' = cplugins \cup {uri_path(msg.uri)}
        /\ alive' = alive

\* main.rs 135: expect("Expected parsed interpreter") panics
Panic ==
    /\ alive' = FALSE
    /\ UNCHANGED <<response, sent, cplugins>>

\* main.rs 251-282: a textDocument/definition request
Definition ==
    /\ Taking
    /\ recv(inbox).msg.kind = "request"
    /\ recv(inbox).msg.method = GotoDefinition
    /\ inbox' = recv(inbox).rest
    /\ IF cache_update(fs, uri_path(recv(inbox).msg.uri)) = None
       THEN Panic
       ELSE Answer(recv(inbox).msg, cache_update(fs, uri_path(recv(inbox).msg.uri))[1])
    /\ UNCHANGED <<fs, cpaths, cinternal, hlast, received, rvars, lvars, xvars, pvars, bvars, wvars>>

\* main.rs 249, 281-283 and 297-299: a request of another method and a
\* notification of another method are dropped
Drop ==
    /\ Taking
    /\ recv(inbox).msg.method \notin {"shutdown", GotoDefinition, DidChangeConfiguration}
    /\ inbox' = recv(inbox).rest
    /\ UNCHANGED <<fs, hvars, received, sent, rvars, lvars, xvars, pvars, bvars, wvars>>

\* main.rs 289-296 for the outcome set of from_value
configure(set) ==
    IF set.kind = "err" THEN UNCHANGED <<cpaths, cplugins>>
    ELSE /\ cpaths' = update_paths(cpaths, settings_paths(set.value))
         /\ cplugins' = cplugins \cup load_plugins(fs, settings_paths(set.value))

\* main.rs 288-296: workspace/didChangeConfiguration
Configure ==
    /\ Taking
    /\ recv(inbox).msg.method = DidChangeConfiguration
    /\ inbox' = recv(inbox).rest
    /\ configure(settings_from_value(recv(inbox).msg))
    /\ UNCHANGED <<fs, cinternal, alive, response, hlast, received, sent, rvars,
                   lvars, xvars, pvars, bvars, wvars>>

MNext ==
    \/ \E msg \in Messages : Deliver(msg)
    \/ Shutdown
    \/ Definition
    \/ Drop
    \/ Configure

SpecLoop == MInit /\ [][MNext]_vars

----------------------------------------------------------------------------
(* The main loop's claims.  A message's id is its number among the         *)
(* messages delivered, so ids order the requests as they were received.    *)

\* the paths a delivered message adds to the roots once it is handled
PathsOf(msg) ==
    IF msg.method = DidChangeConfiguration /\ settings_from_value(msg).kind = "ok"
    THEN settings_paths(settings_from_value(msg).value)
    ELSE <<>>

\* the roots after the first n delivered messages were handled
RootsAfter(n) ==
    LoopFolders \o Flatten(MapSeq(SubSeq(received, 1, n), PathsOf))

\* C14: responses are sent in the order the requests were received, each
\* for a request that was received, and each is computed and sent with the
\* roots that exactly the notifications received before its request left:
\* no configuration is applied between taking a request and answering it.
C14_RequestOrder ==
    /\ \A j, k \in 1..Len(sent) :
          j < k => sent[j].response.id < sent[k].response.id
    /\ \A k \in 1..Len(sent) :
          /\ sent[k].response.id \in 1..Len(received)
          /\ received[sent[k].response.id].kind = "request"
          /\ sent[k].roots = RootsAfter(sent[k].response.id - 1)

\* two definition requests were answered, a configuration that arrived
\* between them having extended the roots, while the second request was
\* already delivered when the first was answered
C14_Witness ==
    /\ Len(sent) = 2
    /\ sent[1].response.result.json = "array"
    /\ sent[2].response.result.json = "array"
    /\ sent[1].roots # sent[2].roots
    /\ Len(sent[2].response.result.items) > Len(sent[1].response.result.items)

\* the loop is handling a configuration that names paths
Configuring ==
    /\ Taking
    /\ recv(inbox).msg.method = DidChangeConfiguration
    /\ recv(inbox).msg.settings # None
    /\ recv(inbox).msg.settings[1].paths # None
    /\ inbox' = recv(inbox).rest

\* C16: handling a workspace/didChangeConfiguration with settings
\* {paths, openvas} leaves the roots as the previous roots followed by
\* paths, and when openvas is present the built-ins slot is what
\* set_internal of that value makes of it.
C16_Configuration ==
    [][Configuring =>
         /\ cpaths' = cpaths \o recv(inbox).msg.settings[1].paths[1]
         /\ recv(inbox).msg.settings[1].openvas # None =>
              cinternal' = set_internal(fs, cinternal,
                                        recv(inbox).msg.settings[1].openvas[1])]_vars

----------------------------------------------------------------------------
(* openvas_funcs.rs: the built-in resolver over the syntax tree of a C     *)
(* file.  A byte range is carried as the text it selects.                  *)

\* string_literal_range that keeps the quotes
string_literal_range_whole(text) == text

\* string_literal_range applied to code: the range without its first and
\* last byte
string_literal_range(text) == SubSeq(text, 2, Len(text) - 1)

\* openvas_funcs.rs 27-35: the declarator under the declarator of the
\* init_declarator d exists and its text is not libfuncs
not_libfuncs(d) ==
    /\ d.kind = "init_declarator"
    /\ child_by_field_name(d, "declarator") # None
    /\ child_by_field_name(child_by_field_name(d, "declarator")[1], "declarator") # None
    /\ child_by_field_name(child_by_field_name(d, "declarator")[1],
                           "declarator")[1].text # "libfuncs"

\* openvas_funcs.rs 43-57: what one named child of the value list gives
funcname(vc) ==
    IF /\ vc.kind = "initializer_list"
       /\ Len(vc.children) >= 1
       /\ vc.children[1].kind = "string_literal"
       /\ Len(vc.children) >= 2
       /\ vc.children[2].kind = "identifier"
    THEN <<<<vc.children[1].text, vc.children[1].start>>>>
    ELSE <<>>

\* openvas_funcs.rs 37-61 for the value v of the declarator
funcnames_of_value(v) ==
    IF v # None /\ v[1].kind = "initializer_list"
    THEN Flatten(MapSeq(v[1].children, funcname))
    ELSE <<>>

\* openvas_funcs.rs 26-62 for the declarator d of a declaration
funcnames_of(d) ==
    IF d = None \/ not_libfuncs(d[1]) THEN <<>>
    ELSE funcnames_of_value(child_by_field_name(d[1], "value"))

naslfuncnames(node) ==
    IF node.kind = "declaration"
    THEN funcnames_of(child_by_field_name(node, "declarator"))
    ELSE <<>>

\* openvas_funcs.rs 86-97: the FunDef made of one (range, start)
builtin_def(p) ==
    FunDef(Ident(p[2], Point(0, 0), Some(string_literal_range(p[1]))), <<>>)

\* OpenVASInBuildFunctions::new for the outcome parsed of tree()
OpenVASInBuildFunctions_new(origin, parsed) ==
    IF parsed.kind = "err" THEN Err
    ELSE Ok(OpenVASInBuildFunctions(
                Flatten(MapSeq(parsed.value.children,
                               LAMBDA c : MapSeq(naslfuncnames(c), builtin_def))),
                origin))

----------------------------------------------------------------------------
(* SpecBuiltins: new applied to C files of up to MaxDecls top-level items, *)
(* one per row from row 1, indented as the file of tests::funcnames is.    *)

MaxDecls == 3

Indent == 8

\* an element of an initializer list: <<kind, text>>
Elem(r, c, el) ==
    Node(el[1], Point(r, c), Point(r, c + Len(el[2])), el[2], <<>>, NoFields,
         IF el[1] = "string_literal" THEN 2 ELSE 0)

\* { first, second }: an initializer list of elements; a bare element
\* otherwise
Entry(r, c, entry) ==
    IF entry.bare THEN Elem(r, c, entry.els[1])
    ELSE Node("initializer_list", Point(r, c), Point(r, c + 38), "",
              [k \in 1..Len(entry.els) |-> Elem(r, c + 1 + (k - 1) * 18, entry.els[k])],
              NoFields, 1 + Len(entry.els))

Pair(a, b) == [bare |-> FALSE, els |-> <<a, b>>]

CString(name) == <<"string_literal", "\"" \o name \o "\"">>

CIdent(name) == <<"identifier", name>>

\* name, name[] or *name[] at column c
Declarator(r, c, shape, name) ==
    CASE shape = "plain" -> Leaf("identifier", r, c, name)
      [] shape = "array" ->
           Node("array_declarator", Point(r, c), Point(r, c + Len(name) + 2),
                name \o "[]", <<Leaf("identifier", r, c, name)>>,
                [declarator |-> 1], 2)
      [] OTHER ->
           Node("pointer_declarator", Point(r, c), Point(r, c + Len(name) + 3),
                "*" \o name \o "[]",
                <<Node("array_declarator", Point(r, c + 1), Point(r, c + Len(name) + 3),
                       name \o "[]", <<Leaf("identifier", r, c + 1, name)>>,
                       [declarator |-> 1], 2)>>,
                [declarator |-> 1], 1)

\* the value = { entries } after a declarator ending at column c
ValueList(r, c, entries) ==
    Node("initializer_list", Point(r, c + 3), Point(r, c + 5 + Len(entries) * 40),
         "",
         [k \in 1..Len(entries) |-> Entry(r, c + 5 + (k - 1) * 40, entries[k])],
         NoFields, 1 + Len(entries))

\* static init_func <declarator> = <value>;
InitDeclaration(r, declarator, value) ==
    Node("declaration", Point(r, Indent), Point(value.end.row, value.end.column + 1), "",
         <<Leaf("storage_class_specifier", r, Indent, "static"),
           Leaf("type_identifier", r, Indent + 7, "init_func"),
           Node("init_declarator", declarator.start, value.end, "",
                <<declarator, value>>, [declarator |-> 1, value |-> 2], 1)>>,
         [type |-> 2, declarator |-> 3], 1)

\* static init_func <shape of name> = { entries };
TableDeclaration(r, shape, name, entries) ==
    InitDeclaration(r, Declarator(r, Indent + 17, shape, name),
                    ValueList(r, Declarator(r, Indent + 17, shape, name).end.column,
                              entries))

DeclKinds ==
    {"include", "function", "libfuncs", "other", "plain", "pointer", "mixed",
     "noinit", "scalar"}

\* the top-level item of a kind on row r
TopLevel(kind, r) ==
    CASE kind = "include" -> Leaf("preproc_include", r, Indent, "#include <stdio.h>")
      [] kind = "function" -> Leaf("function_definition", r, Indent, "void f(void) {}")
      [] kind = "libfuncs" ->
           TableDeclaration(r, "array", "libfuncs",
               <<Pair(CString("script_name"), CIdent("script_name_internal")),
                 Pair(CString("helper"), CIdent("helper_internal"))>>)
      [] kind = "other" ->
           TableDeclaration(r, "array", "other",
               <<Pair(CString("other_fn"), CIdent("other_internal"))>>)
      [] kind = "plain" ->
           TableDeclaration(r, "plain", "plain",
               <<Pair(CString("plain_fn"), CIdent("plain_internal"))>>)
      [] kind = "pointer" ->
           TableDeclaration(r, "pointer", "libfuncs",
               <<Pair(CString("pointer_fn"), CIdent("pointer_internal"))>>)
      [] kind = "mixed" ->
           TableDeclaration(r, "array", "libfuncs",
               <<Pair(CString("number"), <<"number_literal", "1">>),
                 Pair(CIdent("first_internal"), CString("second")),
                 [bare |-> FALSE, els |-> <<CString("solo")>>],
                 [bare |-> TRUE, els |-> <<CString("bare")>>],
                 Pair(CString("script_name"), CIdent("script_name_internal"))>>)
      [] kind = "noinit" ->
           Node("declaration", Point(r, Indent), Point(r, Indent + 28), "",
                <<Leaf("storage_class_specifier", r, Indent, "static"),
                  Leaf("type_identifier", r, Indent + 7, "init_func"),
                  Declarator(r, Indent + 17, "array", "libfuncs")>>,
                [type |-> 2, declarator |-> 3], 1)
      [] OTHER ->
           InitDeclaration(r, Leaf("identifier", r, Indent + 17, "libfuncs_count"),
                           Leaf("number_literal", r, Indent + 34, "3"))

TranslationUnit(kinds) ==
    Node("translation_unit", Point(1, Indent), Point(Len(kinds) + 1, Indent), "",
         [k \in 1..Len(kinds) |-> TopLevel(kinds[k], k)], NoFields, 0)

CTrees == {TranslationUnit(ks) : ks \in SeqsUpTo(DeclKinds, MaxDecls)}

BuiltinNames == {"script_name", "plain_fn", "solo"}

BuiltinsOrigin == "nasl_init.c"

BInit ==
    /\ btree \in {Err} \cup {Ok(t) : t \in CTrees}
    /\ bname \in BuiltinNames
    /\ bresult = None
    /\ bfound = <<>>
    /\ bpc = "start"
    /\ fs = NoFiles
    /\ RIdle
    /\ LIdle
    /\ HIdle
    /\ XIdle
    /\ PIdle
    /\ MIdle
    /\ WIdle

\* what find_origin_location of name collects from the outcome of new
origin_locations(result, name) ==
    IF result.kind = "err" THEN <<>>
    ELSE find_origin_location(result.value,
                              SearchParameter(BuiltinsOrigin, name, F32Zero))

\* OpenVASInBuildFunctions::new, then find_origin_location of bname as
\* tests::funcnames asks it
NewBuiltins ==
    /\ bpc = "start"
    /\ bresult' = Some(OpenVASInBuildFunctions_new(BuiltinsOrigin, btree))
    /\ bfound' = origin_locations(bresult'[1], bname)
    /\ bpc' = "done"
    /\ UNCHANGED <<btree, bname, fs, rvars, lvars, hvars, xvars, pvars, mvars, wvars>>

BNext == NewBuiltins

SpecBuiltins == BInit /\ [][BNext]_vars

----------------------------------------------------------------------------
(* The built-in resolver's claims, read off the tree.                      *)

BDone == bpc = "done" /\ btree.kind = "ok"

BRoot == btree.value

BDefinitions == bresult[1].value.definitions

\* the declarator under the declarator of the declaration's
\* init_declarator is there and reads libfuncs
BoundToLibfuncs(n) ==
    /\ n.kind = "declaration"
    /\ HasField(n, "declarator")
    /\ FieldNode(n, "declarator").kind = "init_declarator"
    /\ HasField(FieldNode(n, "declarator"), "declarator")
    /\ HasField(FieldNode(FieldNode(n, "declarator"), "declarator"), "declarator")
    /\ FieldNode(FieldNode(FieldNode(n, "declarator"), "declarator"),
                 "declarator").text = "libfuncs"

\* C18: entries come only from declarations whose deepest declarator reads
\* libfuncs: a declaration bound to another name, or whose declarator has
\* no nested declarator, contributes no built-in (every item is on a row
\* of its own, so an entry's row names its declaration).
C18_OnlyLibfuncs ==
    BDone =>
        \A j \in 1..Len(BDefinitions) :
            \E k \in 1..Len(BRoot.children) :
                /\ BoundToLibfuncs(BRoot.children[k])
                /\ BDefinitions[j].id.start.row = BRoot.children[k].start.row

\* the named children of the value list of a top-level declaration
ValueChildren(n) ==
    IF /\ n.kind = "declaration"
       /\ HasField(n, "declarator")
       /\ HasField(FieldNode(n, "declarator"), "value")
    THEN FieldNode(FieldNode(n, "declarator"), "value").children
    ELSE <<>>

\* an initializer list whose first named child is a string literal and
\* whose second is an identifier
IsNamePair(n) ==
    /\ n.kind = "initializer_list"
    /\ Len(n.children) >= 2
    /\ n.children[1].kind = "string_literal"
    /\ n.children[2].kind = "identifier"

InnerLists == Flatten(MapSeq(BRoot.children, ValueChildren))

Unquoted(text) == SubSeq(text, 2, Len(text) - 1)

\* C19: every entry of the table is a FunDef without parameters made of an
\* inner initializer list {string literal, identifier}: its name is the
\* literal's text without the first and last byte, its start the start of
\* the literal, its end the default point, and resolving the name yields
\* (origin, that start).
C19_Entries ==
    BDone =>
        \A j \in 1..Len(BDefinitions) :
            /\ BDefinitions[j].tag = "FunDef"
            /\ BDefinitions[j].params = <<>>
            /\ BDefinitions[j].id.end = Point(0, 0)
            /\ \E k \in 1..Len(InnerLists) :
                  /\ IsNamePair(InnerLists[k])
                  /\ BDefinitions[j].id.identifier =
                        Some(Unquoted(InnerLists[k].children[1].text))
                  /\ BDefinitions[j].id.start = InnerLists[k].children[1].start
            /\ <<BuiltinsOrigin, BDefinitions[j].id.start>> \in
                  Range(origin_locations(bresult[1], BDefinitions[j].id.identifier[1]))

\* the file of tests::funcnames with a table of other shapes before it:
\* script_name resolves to row 3, column 41 and to the one pair of the
\* other table, whose four other children gave nothing
C19_Witness ==
    /\ BDone
    /\ bname = "script_name"
    /\ Len(bfound) = 2
    /\ bfound[2] = <<BuiltinsOrigin, Point(3, 41)>>
    /\ Len(BDefinitions) = 3
    /\ Len(InnerLists) = 7

----------------------------------------------------------------------------
(* The order of resolution (SpecResolve)                                   *)

\* the identifiers of ids that carry the queried name, in order
Named(ids) == SelectSeq(ids, LAMBDA p : matches(p, rsp.name))

\* the identifiers the assignments among js assign, in order
Assigned(js) ==
    Flatten(MapSeq(js, LAMBDA x : IF x.tag = "Assign" THEN <<x.id>> ELSE <<>>))

\* what the top-level entry j contributes to the query
EntryYield(j) ==
    CASE j.tag = "Assign" -> Named(<<j.id>>)
      [] j.tag \in {"FunDef", "IfDef"} ->
            Named(<<j.id>>) \o (IF InScope(j) THEN Named(j.params) ELSE <<>>)
      [] j.tag = "Block" ->
            IF InScope(j) THEN Named(Assigned(j.js.definitions)) ELSE <<>>
      [] OTHER -> <<>>

\* the entries lie in the order of the source, each starting after the last
SourceOrdered(js) ==
    \A k, m \in 1..Len(js) : k < m => LexLt(js[k].id.start, js[m].id.start)

\* C21: the sequence resolve yields is a function of the Definitions and
\* the query: the contributions of the entries in the order of the entries,
\* a FunDef's or IfDef's own identifier before its parameters, a Block's
\* inner results in the place of the Block; so for entries in source order
\* the identifiers are yielded in source order and the first one is the
\* earliest match.
C21_JumpOrder ==
    RDone =>
        /\ rfound = Flatten(MapSeq(rdefs.definitions, EntryYield))
        /\ SourceOrdered(rdefs.definitions) =>
              \A k, m \in 1..Len(rfound) :
                  k < m => LexLe(rfound[k].start, rfound[m].start)

\* a query inside a function whose name and parameter both carry the
\* queried name yields the function first and the parameter second; and a
\* query inside a block that assigns the name, before a later top-level
\* assignment of it, yields the block's assignment first
C21_Witness ==
    /\ RDone
    /\ SourceOrdered(rdefs.definitions)
    /\ Len(rfound) = 2
    /\ \/ \E j \in Top({"FunDef"}) :
             InScope(j) /\ rfound[1] = j.id /\ rfound[2] \in Range(j.params)
       \/ /\ rdefs.definitions[1].tag = "Block"
          /\ rfound[1] \in Range(Assigned(rdefs.definitions[1].js.definitions))
          /\ rdefs.definitions[2].tag = "Assign"
          /\ rfound[2] = rdefs.definitions[2].id

----------------------------------------------------------------------------
(* The entries of if statements and functions (SpecExtract)                *)

\* every definition entry of js, those inside its Blocks after their Block
RECURSIVE EveryEntry(_)
EveryEntry(js) ==
    Flatten(MapSeq(js, LAMBDA j : IF j.tag = "Block"
                                  THEN <<j>> \o EveryEntry(j.js.definitions)
                                  ELSE <<j>>))

\* the if statements of the file that have a condition, in source order
IfStatements ==
    SelectSeq(Descendants(XRoot),
              LAMBDA n : n.kind = "if_statement" /\ HasField(n, "condition"))

\* the identifier on the left of an assignment expression, if it is one
AssignLeft(a) ==
    IF a.kind = "assignment_expression" /\ HasField(a, "left")
       /\ FieldNode(a, "left").kind = "identifier"
    THEN <<Ident(FieldNode(a, "left").start, FieldNode(a, "left").end,
                 Some(FieldNode(a, "left").text))>>
    ELSE <<>>

\* the identifiers a condition binds, in source order, at any depth
Bound(condition) == FilterMap(Descendants(condition), AssignLeft)

\* the IfDef entries spanning the node
IfDefsOf(n) ==
    SelectSeq(EveryEntry(xdefs[1].definitions),
              LAMBDA j : j.tag = "IfDef" /\ j.id = Ident(n.start, n.end, None))

\* the definitions of a use of the identifier b at the start of the
\* consequence of the if statement n
UseInside(n, b) ==
    find_identifiers(xdefs[1],
                     SearchParameter(ExtractOrigin, b.identifier[1],
                                     to_pos(FieldNode(n, "consequence").start.row,
                                            FieldNode(n, "consequence").start.column)))

\* the if statement has one IfDef, spanning it, whose bindings are the
\* identifiers its condition binds, and a use inside resolves to each
IfDefOf(n) ==
    /\ Len(IfDefsOf(n)) = 1
    /\ IfDefsOf(n)[1].params = Bound(FieldNode(n, "condition"))
    /\ \A b \in Range(Bound(FieldNode(n, "condition"))) :
           b \in Range(UseInside(n, b))

\* C22: every if statement with a condition has exactly one IfDef spanning
\* the whole statement whose bindings are, in order, the identifiers
\* assigned anywhere inside the condition, and a use of one inside the
\* statement resolves to it.
C22_IfBindings ==
    XDone => \A k \in 1..Len(IfStatements) : IfDefOf(IfStatements[k])

\* the top-level nodes of a kind, in source order
TopNodes(kind) == SelectSeq(XRoot.children, LAMBDA n : n.kind = kind)

\* the identifiers of the parameter list of a function declarator
Parameters(d) ==
    IF HasField(d, "parameters")
    THEN FilterMap(FieldNode(d, "parameters").children, identifier)
    ELSE <<>>

\* the FunDef the claim gives the function definition n
FunDefOf(n) ==
    FunDef(Ident(n.start, n.end,
                 Some(FieldNode(FieldNode(n, "declarator"), "declarator").text)),
           Parameters(FieldNode(n, "declarator")))

\* the positions among the definitions of the entries lying inside n
EntriesWithin(n) ==
    {k \in 1..Len(xdefs[1].definitions) :
        /\ LexLe(n.start, xdefs[1].definitions[k].id.start)
        /\ LexLe(xdefs[1].definitions[k].id.end, n.end)}

\* n contributes its FunDef and, right after it, the anonymous Block of its
\* body, and nothing else
FunctionEntries(n) ==
    \E k \in 1..Len(xdefs[1].definitions) - 1 :
        /\ EntriesWithin(n) = {k, k + 1}
        /\ xdefs[1].definitions[k] = FunDefOf(n)
        /\ xdefs[1].definitions[k + 1].tag = "Block"
        /\ xdefs[1].definitions[k + 1].id =
               Ident(FieldNode(n, "body").start, FieldNode(n, "body").end, None)

\* the top-level statements that are an assignment to an identifier
TopAssignments ==
    SelectSeq(TopNodes("expression_statement"),
              LAMBDA n : AssignLeft(n.children[1]) # <<>>)

\* C23: a function definition contributes exactly one FunDef, spanning the
\* whole definition and carrying the declarator's name and parameters,
\* followed by exactly one anonymous Block for its body; no call site is
\* stored among the definitions at any depth; so a file of functions,
\* assignments and calls has two entries per function and one per
\* assignment.
C23_FunctionEntries ==
    XDone =>
        /\ \A n \in Range(TopNodes("function_definition")) : FunctionEntries(n)
        /\ \A j \in Range(EveryEntry(xdefs[1].definitions)) :
               j.tag # "CallExpression"
        /\ TopNodes("if_statement") = <<>> =>
               Len(xdefs[1].definitions) =
                   2 * Len(TopNodes("function_definition")) + Len(TopAssignments)

\* one function, two assignments and one call: four entries
C23_Witness ==
    /\ XDone
    /\ Len(XRoot.children) = 4
    /\ Len(TopNodes("function_definition")) = 1
    /\ Len(TopAssignments) = 2
    /\ \E n \in Range(XRoot.children) : IsCall(n.children[1])
    /\ Len(xdefs[1].definitions) = 4

----------------------------------------------------------------------------
(* Soundness of resolution and foreign files (SpecResolve)                 *)

\* every entry of the Definitions, at any depth
REntries == Range(EveryEntry(rdefs.definitions))

\* the identifiers of the call sites and the anonymous ranges of the
\* Definitions
Unyieldable ==
    {j.id : j \in {x \in REntries : x.tag \in {"CallExpression", "Block", "IfDef"}}}

\* C24: every identifier find_definitions yields carries the queried name;
\* no anonymous range of a Block or an IfDef and no identifier of a call
\* site is yielded, for any Definitions and any query.
C24_Soundness ==
    RDone => \A k \in 1..Len(rfound) :
                 /\ rfound[k].identifier = Some(rsp.name)
                 /\ rfound[k] \notin Unyieldable

\* a query inside an if statement and on the name of a call site of the
\* file yields a definition and neither the if statement nor the call
C24_Witness ==
    /\ RDone
    /\ rfound # <<>>
    /\ \E j \in Top({"IfDef"}) : InScope(j)
    /\ \E j \in Top({"CallExpression"}) : j.id.identifier = Some(rsp.name)

\* the identifiers of the top-level functions and assignments, in order
TopDefined ==
    Flatten(MapSeq(rdefs.definitions,
                   LAMBDA j : IF j.tag \in {"FunDef", "Assign"} THEN <<j.id>> ELSE <<>>))

\* C25: a Definitions of another origin than the query's contributes its
\* top-level FunDef and Assign identifiers carrying the name and nothing
\* else: no parameter, no if-condition binding, nothing from inside a Block,
\* whatever the position.
C25_ForeignFile ==
    RDone /\ ~RSameOrigin => rfound = Named(TopDefined)

\* a query from another file, at a position inside a function of this
\* file whose parameter carries the name and inside a block that assigns it,
\* finds neither
C25_Witness ==
    /\ RDone
    /\ ~RSameOrigin
    /\ \E j \in Top({"FunDef"}) :
           /\ in_pos(j.id, rsp.pos)
           /\ \E p \in Range(j.params) : matches(p, rsp.name) /\ p \notin RFound
    /\ \E j \in Top({"Block"}) :
           /\ in_pos(j.id, rsp.pos)
           /\ \E x \in Range(j.js.definitions) :
                  matches(x.id, rsp.name) /\ x.id \notin RFound
    /\ rfound # <<>>

----------------------------------------------------------------------------
(* Includes inside compound statements (SpecExtract)                       *)

\* the compound statements of the file: braced blocks, function bodies and
\* braced if and else bodies
Compounds ==
    SelectSeq(Descendants(XRoot), LAMBDA n : n.kind = "compound_statement")

\* the names the include calls directly inside the compound statement give
NestedNames(b) ==
    Flatten(MapSeq(SelectSeq(LevelCalls(b), IsIncludeCall), FragmentTexts))

\* the Block entries spanning the compound statement
BlocksOf(b) ==
    SelectSeq(EveryEntry(xdefs[1].definitions),
              LAMBDA j : j.tag = "Block" /\ j.id = Ident(b.start, b.end, None))

IncludeRoot == "/r1"

\* a disk where every file an include call of the tree names, nested or
\* not, is a readable script under the root
IncludedFiles ==
    [p \in {format_path(IncludeRoot, t) :
               t \in Range(Flatten(MapSeq(AllIncludeCalls, FragmentTexts)))} |->
        File("file", Code(TRUE, <<>>, <<>>, <<>>))]

\* the origins new_with_includes loads for the file on that disk
LoadedOrigins ==
    {d.origin :
        d \in Range(new_with_includes(
                        IncludedFiles, ExtractOrigin, <<IncludeRoot>>,
                        Some(Code(TRUE, <<>>, xdefs[1].definitions,
                                  xdefs[1].includes)),
                        3).value)}

\* C26: an include call nested in a compound statement (a block, a function
\* body, a braced if or else body) is recorded in the includes of that
\* Block's inner Definitions and not in the file's includes, and the loader
\* does not load the file it names although that file exists; the files the
\* file's own includes name are loaded.
C26_NestedIncludes ==
    XDone =>
        /\ \A b \in Range(Compounds) :
               /\ Len(BlocksOf(b)) = 1
               /\ BlocksOf(b)[1].js.includes = NestedNames(b)
               /\ \A t \in Range(NestedNames(b)) :
                      /\ t \notin Range(xdefs[1].includes)
                      /\ format_path(IncludeRoot, t) \notin LoadedOrigins
        /\ \A t \in Range(xdefs[1].includes) :
               format_path(IncludeRoot, t) \in LoadedOrigins

\* a file with a top-level include that is loaded and an include in a
\* function body or a braced if body that is not
C26_Witness ==
    /\ XDone
    /\ Cardinality(LoadedOrigins) >= 2
    /\ \E b \in Range(Compounds) :
           /\ NestedNames(b) # <<>>
           /\ b \notin Range(XRoot.children)

----------------------------------------------------------------------------
(* The built-in lookup as a function of the name (SpecBuiltins)            *)

\* the table new built
BTable == bresult[1].value.definitions

\* queries for bname from the table's file and from a script, at the origin
\* of coordinates and at the start of every table entry
BuiltinQueries ==
    {SearchParameter(o, bname, pos) :
        o \in {BuiltinsOrigin, "/r1/a.nasl"},
        pos \in {F32Zero} \cup
                {to_pos(j.id.start.row, j.id.start.column) : j \in Range(BTable)}}

\* C27: find_origin_location depends on the name alone: every query for
\* the name, whatever its position and origin, returns the same sequence,
\* the pair (origin of the table, start) of each table entry carrying the
\* name, in table order.
C27_NameOnly ==
    BDone /\ bresult[1].kind = "ok" =>
        /\ \A sp \in BuiltinQueries :
               find_origin_location(bresult[1].value, sp) = bfound
        /\ bfound = MapSeq(SelectSeq(BTable, LAMBDA j : j.id.identifier = Some(bname)),
                           LAMBDA j : <<BuiltinsOrigin, j.id.start>>)

\* a table holding the name twice, asked from several positions
C27_Witness ==
    /\ BDone
    /\ bresult[1].kind = "ok"
    /\ Len(bfound) >= 2
    /\ Cardinality(BuiltinQueries) >= 4

----------------------------------------------------------------------------
(* SpecLoopFair: the main loop is a running thread blocked on the          *)
(* receiver, so a message waiting in the channel is taken                  *)

\* main.rs 193: an iteration takes the oldest message off the channel;
\* every arm of the loop (Shutdown, Definition, Drop, Configure) is such a
\* step and no other step is
Take == Taking /\ inbox' = recv(inbox).rest

SpecLoopFair == SpecLoop /\ WF_inbox(Take)

\* message k, whose id is k, is a textDocument/definition request received
\* with no shutdown request before it
DefinitionRequest(k) ==
    /\ k <= Len(received)
    /\ received[k].kind = "request"
    /\ received[k].method = GotoDefinition
    /\ \A m \in 1..(k - 1) :
           ~(received[m].kind = "request" /\ received[m].method = "shutdown")

\* the responses sent that carry the id
ResponsesTo(id) == SelectSeq(sent, LAMBDA x : x.response.id = id)

\* C28: every textDocument/definition request received before shutdown
\* eventually has exactly one response carrying its id, whether or not its
\* file can be read and parsed.
C28_Responds ==
    \A k \in 1..MaxMessages :
        [](DefinitionRequest(k) => <>(Len(ResponsesTo(k)) = 1))

----------------------------------------------------------------------------
(* cache.rs: one call of Cache::load_plugins.  The calling thread spawns   *)
(* the workers, walks the directory and hands every .nasl and .inc path to *)
(* worker i % worker_count, then collects the results; a worker parses     *)
(* what it receives until its receive times out.  Nothing bounds the time  *)
(* between two entries of the walk, so a receive on an empty channel may   *)
(* time out at any moment.                                                 *)

MaxEntries == 2

MaxWorkers == 2

\* an entry of the walk: a script that parses, a script from_path fails on,
\* or a directory or a file of another name
EntryKinds == {"script", "broken", "other"}

Walks == SeqsUpTo(EntryKinds, MaxEntries)

\* fname.ends_with(".inc") || fname.ends_with(".nasl")
is_script(kind) == kind \in {"script", "broken"}

\* a worker as spawned: (txp, child)
Child == [queue |-> <<>>, at |-> "recv", x |-> 0]

\* rxp.recv_timeout(..) of a receive that blocks until a message arrives
timed_out_never(queue) == FALSE

\* rxp.recv_timeout(Duration::from_secs(1)) gives Err: nothing has arrived
timed_out(queue) == queue = <<>>

\* cache.rs 66-72: every child is finished; false when there is none
stopped(cs) ==
    /\ DOMAIN cs # {}
    /\ \A w \in DOMAIN cs : cs[w].at = "finished"

\* cache.rs 24-43: the channels are made and the workers spawned; entry k
\* of the walk stands for the path it names
WInit ==
    /\ wentries \in Walks
    /\ wnext = 1
    /\ wchildren \in {[w \in 0..(n - 1) |-> Child] : n \in 1..MaxWorkers}
    /\ wrx = <<>>
    /\ wplugins = {}
    /\ wunsent = {}
    /\ wpc = "walk"
    /\ fs = NoFiles
    /\ RIdle
    /\ LIdle
    /\ HIdle
    /\ XIdle
    /\ PIdle
    /\ MIdle
    /\ BIdle

WRest == <<fs, rvars, lvars, hvars, xvars, pvars, mvars, bvars>>

\* worker_count
WorkerCount == Cardinality(DOMAIN wchildren)

\* cache.rs 54: children[i % worker_count].0.send(fname), which fails once
\* the worker has returned and dropped its receiver
send_to(cs, w, path) ==
    IF cs[w].at = "finished" THEN cs
    ELSE [cs EXCEPT ![w].queue = Append(@, path)]

\* cache.rs 49-63: the walk yields its next entry
Dispatch ==
    /\ wpc = "walk"
    /\ wnext <= Len(wentries)
    /\ wnext' = wnext + 1
    /\ IF is_script(wentries[wnext])
       THEN /\ wchildren' = send_to(wchildren, (wnext - 1) % WorkerCount, wnext)
            /\ wunsent' = IF wchildren[(wnext - 1) % WorkerCount].at = "finished"
                          THEN wunsent \cup {wnext} ELSE wunsent
       ELSE UNCHANGED <<wchildren, wunsent>>
    /\ UNCHANGED <<wentries, wrx, wplugins, wpc, WRest>>

\* the walk is over: the thread reaches `while !stopped()`
EndWalk ==
    /\ wpc = "walk"
    /\ wnext > Len(wentries)
    /\ wpc' = "check"
    /\ UNCHANGED <<wentries, wnext, wchildren, wrx, wplugins, wunsent, WRest>>

\* cache.rs 31: recv_timeout gives Ok(x)
WorkerRecv(w) ==
    /\ w \in DOMAIN wchildren
    /\ wchildren[w].at = "recv"
    /\ wchildren[w].queue # <<>>
    /\ wchildren' = [wchildren EXCEPT ![w] = [queue |-> Tail(@.queue), at |-> "parse",
                                              x |-> Head(@.queue)]]
    /\ UNCHANGED <<wentries, wnext, wrx, wplugins, wunsent, wpc, WRest>>

\* cache.rs 31: recv_timeout gives Err, the loop ends and the thread returns
WorkerTimeout(w) ==
    /\ w \in DOMAIN wchildren
    /\ wchildren[w].at = "recv"
    /\ timed_out(wchildren[w].queue)
    /\ wchildren' = [wchildren EXCEPT ![w].at = "finished"]
    /\ UNCHANGED <<wentries, wnext, wrx, wplugins, wunsent, wpc, WRest>>

\* cache.rs 32-39: from_path, and the result sent when it is Ok; the send
\* fails once load_plugins has returned and dropped rx
WorkerParse(w) ==
    /\ w \in DOMAIN wchildren
    /\ wchildren[w].at = "parse"
    /\ wrx' = IF wentries[wchildren[w].x] = "script" /\ wpc # "returned"
              THEN Append(wrx, wchildren[w].x) ELSE wrx
    /\ wchildren' = [wchildren EXCEPT ![w].at = "recv", ![w].x = 0]
    /\ UNCHANGED <<wentries, wnext, wplugins, wunsent, wpc, WRest>>

\* cache.rs 73: while !stopped()
Check ==
    /\ wpc = "check"
    /\ wpc' = IF stopped(wchildren) THEN "returned" ELSE "drain"
    /\ UNCHANGED <<wentries, wnext, wchildren, wrx, wplugins, wunsent, WRest>>

\* cache.rs 74-76: rx.recv_timeout gives a result, which is inserted
Collect ==
    /\ wpc = "drain"
    /\ wrx # <<>>
    /\ wplugins' = wplugins \cup {Head(wrx)}
    /\ wrx' = Tail(wrx)
    /\ UNCHANGED <<wentries, wnext, wchildren, wunsent, wpc, WRest>>

\* cache.rs 74: rx.recv_timeout(Duration::from_millis(10)) gives Err
CollectTimeout ==
    /\ wpc = "drain"
    /\ wrx = <<>>
    /\ wpc' = "check"
    /\ UNCHANGED <<wentries, wnext, wchildren, wrx, wplugins, wunsent, WRest>>

Caller == Dispatch \/ EndWalk \/ Check \/ Collect \/ CollectTimeout

Worker(w) == WorkerRecv(w) \/ WorkerTimeout(w) \/ WorkerParse(w)

WNext ==
    \/ Dispatch
    \/ EndWalk
    \/ Check
    \/ Collect
    \/ CollectTimeout
    \/ \E w \in 0..(MaxWorkers - 1) : WorkerRecv(w)
    \/ \E w \in 0..(MaxWorkers - 1) : WorkerTimeout(w)
    \/ \E w \in 0..(MaxWorkers - 1) : WorkerParse(w)

SpecPlugins == WInit /\ [][WNext]_vars

\* every thread keeps running: the caller takes its next step, and so does
\* each worker, whose receive returns a message or times out
SpecPluginsFair ==
    /\ SpecPlugins
    /\ WF_vars(Caller)
    /\ \A w \in 0..(MaxWorkers - 1) : WF_vars(Worker(w))

\* the scripts of the walk, and those from_path succeeds on
Scripts == {k \in 1..Len(wentries) : is_script(wentries[k])}

Parsed == {k \in 1..Len(wentries) : wentries[k] = "script"}

\* C29: load_plugins loses nothing under any interleaving: no send to a
\* worker fails because the worker has already exited, and when the
\* collection loop stops no result is left in the result channel and every
\* script that parses is a key of the map.
C29_NoLoss ==
    /\ wunsent = {}
    /\ wpc = "returned" => wrx = <<>> /\ Parsed \subseteq wplugins

\* C30: load_plugins terminates: once the walk has dispatched every path,
\* every worker eventually exits, and the collection loop then stops and
\* the map is returned.
C30_Terminates ==
    /\ (wpc = "check") ~> stopped(wchildren)
    /\ stopped(wchildren) ~> (wpc = "returned")
    /\ <>(wpc = "returned")

\* the call has returned a map with a key, every worker being finished
C30_Witness ==
    /\ wpc = "returned"
    /\ stopped(wchildren)
    /\ wplugins # {}
    /\ WorkerCount = MaxWorkers

====
